---- MODULE Spec2Model ----
(***************************************************************************)
(* Model of control_actas: reconciliation of the unit prices declared in   *)
(* monthly payment certificates ("actas") against reference prices.        *)
(*                                                                         *)
(* Two backends are modelled, as in the repository:                        *)
(*   control_normal/control_actas   (suffix-free names)                    *)
(*   control_critico/control_actas  (names ending in _cr)                  *)
(*                                                                         *)
(* Conventions of the model                                                *)
(*   - Python str      -> TLA+ string                                      *)
(*   - Python None     -> None (the empty tuple); a present value v of an  *)
(*                        optional is Algo(v) = <<v>>                      *)
(*   - Python float    -> [nan |-> BOOLEAN, n |-> Int]; the model's        *)
(*                        amounts are whole numbers, NaN is kept apart     *)
(*   - worksheet cell  -> [t |-> "none" | "num" | "str", n |-> Int,        *)
(*                         s |-> string]                                   *)
(*   - DataFrame / sheet of an .xlsx written by pandas -> the sequence of  *)
(*                        its rows; a None cell is written blank and read  *)
(*                        back as NaN, both are None here and compare      *)
(*                        False with everything, as in pandas              *)
(*   - a workbook has one view: its cells hold values, no formulas, so the *)
(*     data_only view read for prices and quantities equals the other      *)
(*                                                                         *)
(* control_critico imports excel_utils, meses and config from its own      *)
(* package; those three files are not part of the source tree, and the     *)
(* model uses control_normal's obtener_columnas, preparar_registro,        *)
(* parsear_anio_mes_desde_carpeta and ACTIVIDADES_CRITICAS for both.       *)
(*                                                                         *)
(* Specifications                                                          *)
(*   SpecFn      - _clasificar_familia and _buscar_critico on descriptions *)
(*   SpecNorm    - normalizar and normalizar_unidad of both backends on    *)
(*                 raw texts and unit labels                               *)
(*   SpecActa    - revisar_acta over a family of certificates              *)
(*   Spec        - correr_todo, repeated over the folders of a project,    *)
(*                 with the failures of its three unguarded writes         *)
(*   SpecPrecios - the precios and precios_log tables of bd_precios under  *)
(*                 overlapping calls of upsert_precios, actualizar_precio  *)
(*                 and eliminar_actividad, each running in steps           *)
(*   SpecLote    - correr_todos_los_meses over the entries of a data       *)
(*                 folder listed in any order                              *)
(*   SpecCarga   - runs of correr_todo given the reference prices that     *)
(*                 the loader of get_backend reads from the price database *)
(***************************************************************************)
EXTENDS Integers, Sequences, FiniteSets, TLC

(***************************************************************************)
(* Optionals, floats, cells                                                *)
(***************************************************************************)
None == <<>>
Algo(v) == <<v>>
EsNone(x) == x = <<>>
Val(x) == x[1]

Num(n) == [nan |-> FALSE, n |-> n]
NaN == [nan |-> TRUE, n |-> 0]

CeldaNone == [t |-> "none", n |-> 0, s |-> ""]
CeldaNum(n) == [t |-> "num", n |-> n, s |-> ""]
CeldaStr(s) == [t |-> "str", n |-> 0, s |-> s]

Abs(n) == IF n < 0 THEN -n ELSE n

(***************************************************************************)
(* Python str primitives, character by character                           *)
(***************************************************************************)
Minusculas == "abcdefghijklmnopqrstuvwxyz"
Mayusculas == "ABCDEFGHIJKLMNOPQRSTUVWXYZ"
Digitos == "0123456789"
MinusTilde == "áéíóúñ"
MayusTilde == "ÁÉÍÓÚÑ"
MinusBase == "aeioun"
MayusBase == "AEIOUN"

Ch(s, i) == SubSeq(s, i, i)

\* position of character c in s, 0 when absent
Pos(c, s) ==
    IF \E i \in 1..Len(s) : Ch(s, i) = c
    THEN CHOOSE i \in 1..Len(s) : Ch(s, i) = c /\ \A j \in 1..(i-1) : Ch(s, j) # c
    ELSE 0

\* Python: k in s
Contiene(s, k) ==
    \E i \in 1..(Len(s) - Len(k) + 1) : SubSeq(s, i, i + Len(k) - 1) = k

\* str.lower() of one character
lower_c(c) ==
    IF Pos(c, Mayusculas) > 0 THEN Ch(Minusculas, Pos(c, Mayusculas))
    ELSE IF Pos(c, MayusTilde) > 0 THEN Ch(MinusTilde, Pos(c, MayusTilde))
    ELSE c

\* str.upper() of one character
upper_c(c) ==
    IF Pos(c, Minusculas) > 0 THEN Ch(Mayusculas, Pos(c, Minusculas))
    ELSE IF Pos(c, MinusTilde) > 0 THEN Ch(MayusTilde, Pos(c, MinusTilde))
    ELSE c

\* unicodedata.normalize("NFD", c) with the combining marks (Mn) dropped
sin_marcas_c(c) ==
    IF Pos(c, MinusTilde) > 0 THEN Ch(MinusBase, Pos(c, MinusTilde))
    ELSE IF Pos(c, MayusTilde) > 0 THEN Ch(MayusBase, Pos(c, MayusTilde))
    ELSE c

\* regex \s on the model's alphabet
EsEspacio(c) == c = " "

\* regex \w on the model's alphabet
EsPalabra(c) ==
    \/ Pos(c, Minusculas) > 0 \/ Pos(c, Mayusculas) > 0 \/ Pos(c, Digitos) > 0
    \/ Pos(c, MinusTilde) > 0 \/ Pos(c, MayusTilde) > 0 \/ c = "_"

RECURSIVE lower(_)
lower(s) == IF s = "" THEN "" ELSE lower_c(Head(s)) \o lower(Tail(s))

RECURSIVE upper(_)
upper(s) == IF s = "" THEN "" ELSE upper_c(Head(s)) \o upper(Tail(s))

RECURSIVE sin_marcas(_)
sin_marcas(s) == IF s = "" THEN "" ELSE sin_marcas_c(Head(s)) \o sin_marcas(Tail(s))

\* str.strip()
RECURSIVE lstrip(_)
lstrip(s) == IF s # "" /\ EsEspacio(Head(s)) THEN lstrip(Tail(s)) ELSE s

RECURSIVE rstrip(_)
rstrip(s) ==
    IF s # "" /\ EsEspacio(Ch(s, Len(s))) THEN rstrip(SubSeq(s, 1, Len(s) - 1)) ELSE s

strip(s) == rstrip(lstrip(s))

\* re.sub(r"\s+", rep, s)
RECURSIVE sub_espacios(_, _)
sub_espacios(s, rep) ==
    IF s = "" THEN ""
    ELSE IF EsEspacio(Head(s)) THEN rep \o sub_espacios(lstrip(s), rep)
    ELSE Head(s) \o sub_espacios(Tail(s), rep)

\* str.replace(old, new), old non-empty
RECURSIVE replace(_, _, _)
replace(s, old, new) ==
    IF Len(s) < Len(old) THEN s
    ELSE IF SubSeq(s, 1, Len(old)) = old
         THEN new \o replace(SubSeq(s, Len(old) + 1, Len(s)), old, new)
         ELSE Head(s) \o replace(Tail(s), old, new)

\* re.sub(r"[^a-z0-9 ]", " ", s)
RECURSIVE solo_minus_alnum(_)
solo_minus_alnum(s) ==
    IF s = "" THEN ""
    ELSE (IF Pos(Head(s), Minusculas) > 0 \/ Pos(Head(s), Digitos) > 0 \/ Head(s) = " "
          THEN Head(s) ELSE " ") \o solo_minus_alnum(Tail(s))

\* re.sub(r"[^A-Z0-9 ]", " ", s)
RECURSIVE solo_mayus_alnum(_)
solo_mayus_alnum(s) ==
    IF s = "" THEN ""
    ELSE (IF Pos(Head(s), Mayusculas) > 0 \/ Pos(Head(s), Digitos) > 0 \/ Head(s) = " "
          THEN Head(s) ELSE " ") \o solo_mayus_alnum(Tail(s))

\* re.search(r"\bW\b", s) for a word W of \w characters
BuscaPalabra(s, w) ==
    \E i \in 1..(Len(s) - Len(w) + 1) :
        /\ SubSeq(s, i, i + Len(w) - 1) = w
        /\ (i = 1 \/ ~EsPalabra(Ch(s, i - 1)))
        /\ (i + Len(w) > Len(s) \/ ~EsPalabra(Ch(s, i + Len(w))))

(***************************************************************************)
(* procesar_actas.py: normalisation                                        *)
(***************************************************************************)
\* a normalizar that trims before it blanks the punctuation, and not after
normalizar_recorta_antes(texto) ==
    sub_espacios(solo_minus_alnum(strip(sin_marcas(lower(texto)))), " ")

\* lines 15-21, texto a str
normalizar(texto) ==
    strip(sub_espacios(solo_minus_alnum(sin_marcas(lower(texto))), " "))

\* lines 13-21, texto an optional: None or Algo(str)
normalizar_opcional(texto) ==
    IF EsNone(texto) THEN None ELSE Algo(normalizar(Val(texto)))

normalizar_cr(texto) ==
    strip(sub_espacios(solo_mayus_alnum(sin_marcas(upper(texto))), " "))

\* control_critico lines 12-20, texto an optional: None gives ""
normalizar_cr_opcional(texto) ==
    IF EsNone(texto) THEN Algo("") ELSE Algo(normalizar_cr(Val(texto)))

\* a unit table without the linear metre
mapa_unidades_sin_ml(s) ==
    IF s \in {"UND", "UNID", "UNIDAD", "U"} THEN "UN"
    ELSE s

mapa_unidades(s) ==
    IF s \in {"UND", "UNID", "UNIDAD", "U"} THEN "UN"
    ELSE IF s \in {"ML", "M.L"} THEN "M"
    ELSE s

\* u is an optional: None or Algo(str)
normalizar_unidad(u) ==
    IF EsNone(u) THEN ""
    ELSE mapa_unidades(
           sub_espacios(
             replace(replace(replace(replace(upper(strip(Val(u))),
                 "M³", "M3"), "M^3", "M3"), "M²", "M2"), "M^2", "M2"),
             ""))

(***************************************************************************)
(* config.py: critical activities, keyword -> reference price              *)
(***************************************************************************)
ACTIVIDADES_CRITICAS ==
    << <<"EXCAVACION MECANICA", 1000>>,
       <<"BASE GRANULAR", 1000>>,
       <<"SUBBASE GRANULAR", 1000>>,
       <<"ESTABILIZACION DE SUBRASANTE", 4500>>,
       <<"ESTABILIZACION CON RAJON", 4500>>,
       <<"ESTABILIZACION CON RCD", 4500>> >>

\* the critical backend's config.py is not among the sources; the table is
\* taken to be the one the specification names (the same activities)
ACTIVIDADES_CRITICAS_cr == ACTIVIDADES_CRITICAS

\* dict assignment d[k] = v on an insertion-ordered dict kept as a
\* sequence of <<key, value>> pairs
DictSet(d, k, v) ==
    IF \E i \in 1..Len(d) : d[i][1] = k
    THEN [i \in 1..Len(d) |-> IF d[i][1] = k THEN <<k, v>> ELSE d[i]]
    ELSE Append(d, <<k, v>>)

\* module-level loop building CRIT_MAP
RECURSIVE construir_CRIT_MAP(_, _)
construir_CRIT_MAP(items, acc) ==
    IF items = <<>> THEN acc
    ELSE LET kn == normalizar(Head(items)[1])
         IN construir_CRIT_MAP(Tail(items),
                IF kn = "" THEN acc ELSE DictSet(acc, kn, Num(Head(items)[2])))

\* module-level loop building CRITICOS_NORM
RECURSIVE construir_CRITICOS_NORM(_, _)
construir_CRITICOS_NORM(items, acc) ==
    IF items = <<>> THEN acc
    ELSE LET kn == normalizar_cr(Head(items)[1])
         IN construir_CRITICOS_NORM(Tail(items),
                IF kn = "" THEN acc ELSE DictSet(acc, kn, Num(Head(items)[2])))

(***************************************************************************)
(* State                                                                   *)
(***************************************************************************)
VARIABLES
    CRIT_MAP,        \* control_normal procesar_actas.CRIT_MAP (module global)
    CRITICOS_NORM,   \* control_critico procesar_actas.CRITICOS_NORM (module global)
    entrada,         \* argument of the pure function under check
    funcion,         \* name of the function last applied ("" before any call)
    salida,          \* its return value
    \* ---- inputs of a run
    carpetas,        \* os.listdir of every actas/<folder>: folder name -> Seq(file name)
    libros,          \* the workbooks of the files: file name -> workbook
    valores_referencia, \* dict (desc_norm, un_norm) -> reference price
    \* ---- files written by the program
    base_general,    \* datos/base_general.xlsx: None, or Algo(rows)
    resumen_mes,     \* resumen/<folder>/resumen_<folder>.xlsx: folder -> None or Algo(sheets)
    resumen_global,  \* resumen/resumen_global.xlsx: None or Algo(sheets)
    salidas,         \* salidas/<folder>/: set of <<folder, file name>> saved
    cuadro,          \* the CUADRO_CANTIDADES sheet of the verified workbook saved
                     \* last: None, or Algo(column letter -> [titulo, cantidades])
    \* ---- correr_todo
    pc,              \* position of the run
    backend,         \* "normal" | "critico": the package get_backend resolved
    modo_critico,    \* the modo_critico argument
    nombre_carpeta_mes,
    anio_actual,     \* optional int
    mes_nombre,      \* optional str
    idx,             \* position of the for loop over os.listdir(carpeta_mes)
    base_registro,
    base_cantidades,
    df_combinado,    \* the DataFrame written to base_general.xlsx by this run
    \* ---- revisar_acta
    hoja_corte,
    nombre_contratista,
    columnas,
    col_valor,
    fila,            \* row of the for loop over the sheet
    totales_cant,
    rama,            \* the branch the last loop iteration ended in
    \* ---- history
    corridas,        \* number of correr_todo calls started
    previa,          \* the last call that returned: None or Algo([carpeta, backend, modo])
    revisadas,       \* the files handed to revisar_acta by the current call, in order
    \* ---- bd_precios (SQLite)
    precios,         \* table precios: Seq([actividad, precio, unidad, updated_at])
    precios_log,     \* table precios_log, in insertion order
    reloj,           \* the clock: datetime.now() to the second
    llamadas,        \* number of calls of bd_precios made
    en_vuelo,        \* the calls that have read the previous values and have not
                     \* committed, in the order of their SELECT
    ultimo_upsert,   \* history: activity key -> None (never named or deleted since) or
                     \* Algo([precio, unidad]) of the last upsert carried out that named it
    \* ---- correr_todos_los_meses
    listado,         \* os.listdir of actas/: the entries in the order the system gives
    meses,           \* None, or Algo(the list listar_carpetas_mes returned)
    resultados       \* the list correr_todos_los_meses returns

varsGlobales == <<CRIT_MAP, CRITICOS_NORM>>
varsFn == <<entrada, funcion, salida>>
varsEntradas == <<carpetas, libros, valores_referencia>>
varsArchivos == <<base_general, resumen_mes, resumen_global, salidas, cuadro>>
varsCorrida == <<pc, backend, modo_critico, nombre_carpeta_mes, anio_actual, mes_nombre,
                 idx, base_registro, base_cantidades, df_combinado>>
varsActa_sin_rama == <<hoja_corte, nombre_contratista, columnas, col_valor, fila, totales_cant>>
varsActa == <<varsActa_sin_rama, rama>>
varsHistoria == <<corridas, previa, revisadas>>
varsBD == <<precios, precios_log, reloj, llamadas, en_vuelo, ultimo_upsert>>
varsLote == <<listado, meses, resultados>>
vars == <<varsGlobales, varsFn, varsEntradas, varsArchivos, varsCorrida, varsActa, varsHistoria,
          varsBD, varsLote>>

InitGlobales ==
    /\ CRIT_MAP = construir_CRIT_MAP(ACTIVIDADES_CRITICAS, <<>>)
    /\ CRITICOS_NORM = construir_CRITICOS_NORM(ACTIVIDADES_CRITICAS_cr, <<>>)

\* the activity keys of the price table the model works with
ClavesActividad == {"a", "b"}

\* a database that connect() has just created: both tables empty
InitBD ==
    /\ precios = <<>>
    /\ precios_log = <<>>
    /\ reloj = 0
    /\ llamadas = 0
    /\ en_vuelo = <<>>
    /\ ultimo_upsert = [k \in ClavesActividad |-> None]

\* no call of correr_todos_los_meses under way
SinLote ==
    /\ meses = None
    /\ resultados = <<>>

(***************************************************************************)
(* procesar_actas.py: _buscar_critico                                      *)
(***************************************************************************)
\* the for loop over the table; mejor = <<best_k, best_len, best_precio>>
RECURSIVE bucle_buscar(_, _, _)
bucle_buscar(tabla, desc_norm, mejor) ==
    IF tabla = <<>> THEN <<mejor[1], mejor[3]>>
    ELSE LET k_norm == Head(tabla)[1]
             precio == Head(tabla)[2]
         IN bucle_buscar(Tail(tabla), desc_norm,
                IF Contiene(desc_norm, k_norm) /\ Len(k_norm) > mejor[2]
                THEN <<Algo(k_norm), Len(k_norm), Algo(precio)>>
                ELSE mejor)

\* a scan that keeps the first keyword contained, whatever its length
RECURSIVE bucle_buscar_primero(_, _)
bucle_buscar_primero(tabla, desc_norm) ==
    IF tabla = <<>> THEN <<None, None>>
    ELSE IF Contiene(desc_norm, Head(tabla)[1])
         THEN <<Algo(Head(tabla)[1]), Algo(Head(tabla)[2])>>
         ELSE bucle_buscar_primero(Tail(tabla), desc_norm)

_buscar_critico_primero(desc_norm) == bucle_buscar_primero(CRIT_MAP, desc_norm)

_buscar_critico(desc_norm) == bucle_buscar(CRIT_MAP, desc_norm, <<None, -1, None>>)

_buscar_critico_cr(desc_norm) == bucle_buscar(CRITICOS_NORM, desc_norm, <<None, -1, None>>)

(***************************************************************************)
(* procesar_actas.py: _clasificar_familia                                  *)
(***************************************************************************)
\* a classifier that looks for the stems anywhere in the description
_clasificar_familia_subcadena(desc_norm) ==
    LET d == " " \o desc_norm \o " "
    IN IF Contiene(d, "estamp") THEN Algo("CONCRETO_ESTAMPADO")
       ELSE IF BuscaPalabra(d, "mr") THEN Algo("CONCRETO_MR")
       ELSE IF Contiene(d, "excav") THEN Algo("EXCAVACIONES")
       ELSE IF Contiene(d, "rellen") THEN Algo("RELLENOS")
       ELSE None

_clasificar_familia(desc_norm) ==
    LET d == " " \o desc_norm \o " "
    IN IF Contiene(d, " estamp") THEN Algo("CONCRETO_ESTAMPADO")
       ELSE IF BuscaPalabra(d, "mr") THEN Algo("CONCRETO_MR")
       ELSE IF Contiene(d, " excav") THEN Algo("EXCAVACIONES")
       ELSE IF Contiene(d, " rellen") THEN Algo("RELLENOS")
       ELSE None

_clasificar_familia_cr(desc_norm) ==
    LET d == " " \o desc_norm \o " "
    IN IF Contiene(d, " ESTAMP") THEN Algo("CONCRETO_ESTAMPADO")
       ELSE IF BuscaPalabra(d, "MR") THEN Algo("CONCRETO_MR")
       ELSE IF Contiene(d, " EXCAV") THEN Algo("EXCAVACIONES")
       ELSE IF Contiene(d, " RELLEN") THEN Algo("RELLENOS")
       ELSE None

(***************************************************************************)
(* Python float() and float arithmetic                                     *)
(***************************************************************************)
EsDigitos(s) == s # "" /\ \A i \in 1..Len(s) : Pos(Ch(s, i), Digitos) > 0

RECURSIVE ValorDecimal(_)
ValorDecimal(s) ==
    IF s = "" THEN 0
    ELSE 10 * ValorDecimal(SubSeq(s, 1, Len(s) - 1)) + (Pos(Ch(s, Len(s)), Digitos) - 1)

\* float(s) for a str: Algo(value), or None when ValueError is raised.
\* Covers whole numbers with an optional sign and "nan"; surrounding
\* whitespace is ignored as float() does.
py_float_str(s) ==
    LET t == strip(s)
    IN IF EsDigitos(t) THEN Algo(Num(ValorDecimal(t)))
       ELSE IF Len(t) > 1 /\ Head(t) = "-" /\ EsDigitos(Tail(t))
            THEN Algo(Num(-ValorDecimal(Tail(t))))
       ELSE IF Len(t) > 1 /\ Head(t) = "+" /\ EsDigitos(Tail(t))
            THEN Algo(Num(ValorDecimal(Tail(t))))
       ELSE IF lower(t) \in {"nan", "+nan", "-nan"} THEN Algo(NaN)
       ELSE None

\* float(v) for a cell value: None raises TypeError, a str may raise ValueError
py_float(celda) ==
    IF celda.t = "num" THEN Algo(Num(celda.n))
    ELSE IF celda.t = "str" THEN py_float_str(celda.s)
    ELSE None

FSub(a, b) == IF a.nan \/ b.nan THEN NaN ELSE Num(a.n - b.n)
FAdd(a, b) == IF a.nan \/ b.nan THEN NaN ELSE Num(a.n + b.n)
FMul(a, b) == IF a.nan \/ b.nan THEN NaN ELSE Num(a.n * b.n)
\* abs(x) > k ; x > k ; x < k : every comparison with NaN is False
FAbsMayor(x, k) == ~x.nan /\ Abs(x.n) > k
\* a zero test that never holds
FEsCero_nunca(x) == FALSE

FEsCero(x) == ~x.nan /\ x.n = 0

\* str(n) for a whole number
RECURSIVE py_str_nat(_)
py_str_nat(n) ==
    IF n < 10 THEN Ch(Digitos, n + 1)
    ELSE py_str_nat(n \div 10) \o Ch(Digitos, (n % 10) + 1)

py_str_int(n) == IF n < 0 THEN "-" \o py_str_nat(-n) ELSE py_str_nat(n)

\* str(v) of a cell value
py_str(celda) ==
    IF celda.t = "none" THEN "None"
    ELSE IF celda.t = "num" THEN py_str_int(celda.n)
    ELSE celda.s

\* truth value of a cell value: None, "" and 0 are false
py_bool(celda) ==
    IF celda.t = "none" THEN FALSE
    ELSE IF celda.t = "num" THEN celda.n # 0
    ELSE celda.s # ""

(***************************************************************************)
(* dict, kept as an insertion-ordered sequence of <<key, value>>           *)
(***************************************************************************)
DictTiene(d, k) == \E i \in 1..Len(d) : d[i][1] = k

\* d.get(k): Algo(value) or None
DictGet(d, k) ==
    IF DictTiene(d, k)
    THEN Algo(d[CHOOSE i \in 1..Len(d) : d[i][1] = k][2])
    ELSE None

\* d.get(k, defecto)
DictGetDef(d, k, defecto) == IF DictTiene(d, k) THEN Val(DictGet(d, k)) ELSE defecto

(***************************************************************************)
(* Worksheets (openpyxl).  A worksheet is                                  *)
(*   [max_column, fila6, fila8, fila9 : Seq(cell), filas : Seq(Seq(cell))] *)
(* filas[k] is sheet row 9 + k; columns are lettered A, B, C, ...          *)
(* A workbook is [legible : BOOLEAN, hojas : Seq(<<sheet name, ws>>)].     *)
(***************************************************************************)
Letras == "ABCDEFGHIJ"

Chr65(i) == Ch(Letras, i + 1)

EnFila(celdas, col) ==
    IF Pos(col, Letras) = 0 \/ Pos(col, Letras) > Len(celdas) THEN CeldaNone
    ELSE celdas[Pos(col, Letras)]

max_row(ws) == 9 + Len(ws.filas)

\* ws[f"{col}{f}"].value
celda(ws, col, f) ==
    IF f = 6 THEN EnFila(ws.fila6, col)
    ELSE IF f = 8 THEN EnFila(ws.fila8, col)
    ELSE IF f = 9 THEN EnFila(ws.fila9, col)
    ELSE IF f >= 10 /\ f <= max_row(ws) THEN EnFila(ws.filas[f - 9], col)
    ELSE CeldaNone

(***************************************************************************)
(* excel_utils.py: obtener_columnas                                        *)
(***************************************************************************)
nombre_columna(e1, e2) ==
    IF py_bool(e1) /\ py_bool(e2) THEN upper(strip(py_str(e1) \o " " \o py_str(e2)))
    ELSE IF py_bool(e1) THEN upper(strip(py_str(e1)))
    ELSE IF py_bool(e2) THEN upper(strip(py_str(e2)))
    ELSE ""

RECURSIVE bucle_columnas(_, _, _)
bucle_columnas(ws, i, cols) ==
    IF i >= ws.max_column THEN cols
    ELSE LET nombre == nombre_columna(celda(ws, Chr65(i), 8), celda(ws, Chr65(i), 9))
         IN bucle_columnas(ws, i + 1,
                IF nombre # "" THEN DictSet(cols, nombre, Chr65(i)) ELSE cols)

obtener_columnas(ws) == bucle_columnas(ws, 0, <<>>)

\* a price column that defaults to E when no header names it
columna_valor_por_defecto(cols) ==
    IF DictTiene(cols, "VALOR UNITARIO") THEN DictGet(cols, "VALOR UNITARIO")
    ELSE Algo("E")

\* revisar_acta: the column of the declared unit price, None when no header
\* contains VALOR UNITARIO
columna_valor(cols) ==
    IF DictTiene(cols, "VALOR UNITARIO") THEN DictGet(cols, "VALOR UNITARIO")
    ELSE IF \E i \in 1..Len(cols) : Contiene(cols[i][1], "VALOR UNITARIO")
         THEN Algo(cols[CHOOSE i \in 1..Len(cols) :
                       /\ Contiene(cols[i][1], "VALOR UNITARIO")
                       /\ \A j \in 1..(i - 1) : ~Contiene(cols[j][1], "VALOR UNITARIO")][2])
         ELSE None

(***************************************************************************)
(* procesar_actas.py: revisar_acta, one iteration of the loop over rows    *)
(***************************************************************************)
Familias == {"Excavaciones", "Rellenos", "Concreto MR", "Concreto estampado"}

TotalesCero == [f \in Familias |-> Num(0)]

\* the result of one iteration: the branch it ended in, the record appended
\* (None when none), the quantities added to totales_cant
Iteracion(r, reg, suma) == [rama |-> r, registro |-> reg, suma |-> suma]

\* the optional str handed to normalizar_unidad
CeldaComoTexto(c) == IF c.t = "none" THEN None ELSE Algo(py_str(c))

\* str(v or "").strip()
TextoOVacio(c) == IF py_bool(c) THEN strip(py_str(c)) ELSE ""

\* category sums that leave excavations out
sumas_por_categoria_sin_excavaciones(desc_norm, cantidad_num) ==
    [f \in Familias |->
        IF \/ (f = "Rellenos" /\ Contiene(desc_norm, "rellen"))
           \/ (f = "Concreto MR" /\ BuscaPalabra(desc_norm, "mr"))
           \/ (f = "Concreto estampado" /\ Contiene(desc_norm, "estamp"))
        THEN cantidad_num ELSE Num(0)]

\* control_normal: lines 319-327
sumas_por_categoria(desc_norm, cantidad_num) ==
    [f \in Familias |->
        IF \/ (f = "Excavaciones" /\ Contiene(desc_norm, "excav"))
           \/ (f = "Rellenos" /\ Contiene(desc_norm, "rellen"))
           \/ (f = "Concreto MR" /\ BuscaPalabra(desc_norm, "mr"))
           \/ (f = "Concreto estampado" /\ Contiene(desc_norm, "estamp"))
        THEN cantidad_num ELSE Num(0)]

\* control_critico: lines 265-273
sumas_por_categoria_cr(desc_norm, cantidad) ==
    [f \in Familias |->
        IF \/ (f = "Excavaciones" /\ Contiene(desc_norm, "EXCAV"))
           \/ (f = "Rellenos" /\ Contiene(desc_norm, "RELLEN"))
           \/ (f = "Concreto MR" /\ BuscaPalabra(desc_norm, "MR"))
           \/ (f = "Concreto estampado" /\ Contiene(desc_norm, "ESTAMP"))
        THEN cantidad ELSE Num(0)]

\* a flagging rule without the tolerance band: any difference flags
supera_tolerancia_sin_banda(valor, valor_ref) == FAbsMayor(FSub(valor, valor_ref), 0)

\* control_normal: the flagging rule, abs(diff) > 1
supera_tolerancia(valor, valor_ref) == FAbsMayor(FSub(valor, valor_ref), 1)

\* an adjusted value computed on the declared price
calcular_valor_ajustado_declarado(valor, valor_ref, cantidad_num) == FMul(valor, cantidad_num)

\* control_normal: valor_ajustado
calcular_valor_ajustado(valor, valor_ref, cantidad_num) == FMul(valor_ref, cantidad_num)

\* control_normal: the dict appended to base_registro (lines 365-378)
registro_normal(archivo, item, descripcion, valor, unidad, valor_ref, cantidad_num) ==
    [anio |-> anio_actual,
     mes |-> mes_nombre,
     archivo |-> archivo,
     contratista |-> nombre_contratista,
     item |-> item,
     descripcion |-> descripcion,
     valor_unitario_original |-> valor,
     un |-> unidad,
     valor_pactado |-> valor_ref,
     cantidad_presenta |-> cantidad_num,
     valor_ajustado |-> calcular_valor_ajustado(valor, valor_ref, cantidad_num),
     modo |-> IF modo_critico THEN "CRITICO" ELSE "NORMAL"]

\* an exact-mode lookup that falls back to the first key of the same
\* description when the pair is not a key
referencia_normal_por_descripcion(desc_norm, unidad) ==
    IF modo_critico THEN _buscar_critico(desc_norm)[2]
    ELSE IF DictTiene(valores_referencia, <<desc_norm, unidad>>)
         THEN DictGet(valores_referencia, <<desc_norm, unidad>>)
    ELSE IF \E i \in 1..Len(valores_referencia) : valores_referencia[i][1][1] = desc_norm
         THEN Algo(valores_referencia[CHOOSE i \in 1..Len(valores_referencia) :
                       valores_referencia[i][1][1] = desc_norm][2])
    ELSE None

\* control_normal: the reference price of a line item, None when there is none
\* (lines 335-350); "sin_unidad" and "sin_valor_referencia" name the branch
referencia_normal(desc_norm, unidad) ==
    IF modo_critico THEN _buscar_critico(desc_norm)[2]
    ELSE IF unidad = "" THEN None
    ELSE DictGet(valores_referencia, <<desc_norm, unidad>>)

\* control_normal: lines 266-379 for sheet row f of worksheet ws
\* a filter that does not look for the PEA marker
es_mano_de_obra_sin_pea(item, desc_upper) ==
    \/ Contiene(desc_upper, "MANO DE OBRA")
    \/ Contiene(upper(item), "MR45")

\* the filter of lines 282-287
es_mano_de_obra(item, desc_upper) ==
    \/ Contiene(desc_upper, "MANO DE OBRA")
    \/ Contiene(upper(item), "MR45")
    \/ Contiene(desc_upper, "PEA")

iteracion_normal(ws, archivo, f) ==
    LET col_item == DictGetDef(columnas, "ÍTEM", "A")
        col_desc == DictGetDef(columnas, "DESCRIPCIÓN", "B")
        col_un == DictGetDef(columnas, "UN", "D")
        item == TextoOVacio(celda(ws, col_item, f))
        desc_raw == celda(ws, col_desc, f)
        un_raw == celda(ws, col_un, f)
        descripcion == strip(py_str(desc_raw))
        unidad == normalizar_unidad(CeldaComoTexto(un_raw))
        desc_upper == upper(descripcion)
        desc_norm == normalizar(descripcion)
        valor_cell == celda(ws, Val(col_valor), f)
        valor_op == py_float_str(replace(replace(py_str(valor_cell), "$", ""), ",", ""))
        cant_op == py_float(celda(ws, "I", f))
        cantidad_num == IF EsNone(cant_op) THEN Num(0) ELSE Val(cant_op)
        suma == sumas_por_categoria(desc_norm, cantidad_num)
        valor_ref == referencia_normal(desc_norm, unidad)
    IN IF item = "" \/ ~py_bool(desc_raw) THEN Iteracion("sin_item_o_desc", None, TotalesCero)
       ELSE IF es_mano_de_obra(item, desc_upper)
            THEN Iteracion("filtro", None, TotalesCero)
       ELSE IF desc_norm = "" THEN Iteracion("desc_vacia", None, TotalesCero)
       ELSE IF valor_cell.t = "none" THEN Iteracion("valor_unitario_none", None, TotalesCero)
       ELSE IF EsNone(valor_op) THEN Iteracion("valor_unitario_no_num", None, TotalesCero)
       ELSE IF FEsCero(cantidad_num) \/ cantidad_num.nan
            THEN Iteracion("cantidad_cero", None, TotalesCero)
       ELSE IF EsNone(valor_ref)
            THEN Iteracion(IF modo_critico THEN "no_critica"
                           ELSE IF unidad = "" THEN "sin_unidad"
                           ELSE "sin_valor_referencia", None, suma)
       ELSE IF supera_tolerancia(Val(valor_op), Val(valor_ref))
            THEN Iteracion("registrado",
                     Algo(registro_normal(archivo, item, descripcion, Val(valor_op),
                                          unidad, Val(valor_ref), cantidad_num)),
                     suma)
       ELSE Iteracion("dentro_tolerancia", None, suma)

\* control_critico: the flagging rule, abs(diff) > 1
supera_tolerancia_cr(valor, precio_ref) == FAbsMayor(FSub(valor, precio_ref), 1)

\* control_critico: the dict appended to base_registro (lines 305-318)
registro_cr(archivo, item, descripcion, valor, un_raw, precio_ref, cantidad) ==
    [anio |-> anio_actual,
     mes |-> mes_nombre,
     archivo |-> archivo,
     contratista |-> nombre_contratista,
     item |-> item,
     descripcion |-> descripcion,
     valor_unitario_original |-> valor,
     un |-> normalizar_unidad(CeldaComoTexto(un_raw)),
     valor_pactado |-> precio_ref,
     cantidad_presenta |-> cantidad,
     valor_ajustado |-> FMul(precio_ref, cantidad),
     modo |-> "CRITICO"]

\* control_critico: lines 242-318 for sheet row f of worksheet ws
\* the filter of control_critico line 254
es_mano_de_obra_cr(desc_norm) ==
    Contiene(desc_norm, "MANO DE OBRA") \/ Contiene(desc_norm, "PEA")

iteracion_cr(ws, archivo, f) ==
    LET col_item == DictGetDef(columnas, "ÍTEM", "A")
        col_desc == DictGetDef(columnas, "DESCRIPCIÓN", "B")
        col_un == DictGetDef(columnas, "UN", "C")
        item == TextoOVacio(celda(ws, col_item, f))
        desc_raw == celda(ws, col_desc, f)
        un_raw == celda(ws, col_un, f)
        descripcion == strip(py_str(desc_raw))
        desc_norm == normalizar_cr(descripcion)
        cant_op == py_float(celda(ws, "G", f))
        cantidad == IF EsNone(cant_op) THEN Num(0) ELSE Val(cant_op)
        cuenta == ~FEsCero(cantidad) /\ ~cantidad.nan
        suma == IF cuenta THEN sumas_por_categoria_cr(desc_norm, cantidad) ELSE TotalesCero
        precio_ref == _buscar_critico_cr(desc_norm)[2]
        valor_op == py_float_str(replace(replace(
                        py_str(celda(ws, Val(col_valor), f)), "$", ""), ",", ""))
    IN IF item = "" \/ ~py_bool(desc_raw) THEN Iteracion("sin_item_o_desc", None, TotalesCero)
       ELSE IF es_mano_de_obra_cr(desc_norm)
            THEN Iteracion("filtro", None, TotalesCero)
       ELSE IF EsNone(precio_ref) THEN Iteracion("no_critica", None, suma)
       ELSE IF EsNone(valor_op) THEN Iteracion("valor_unitario_no_num", None, suma)
       ELSE IF ~cuenta THEN Iteracion("cantidad_cero", None, suma)
       ELSE IF supera_tolerancia_cr(Val(valor_op), Val(precio_ref))
            THEN Iteracion("registrado",
                     Algo(registro_cr(archivo, item, descripcion, Val(valor_op),
                                      un_raw, Val(precio_ref), cantidad)),
                     suma)
       ELSE Iteracion("dentro_tolerancia", None, suma)

(***************************************************************************)
(* meses.py                                                                *)
(***************************************************************************)
MAPA_MESES ==
    << <<"enero", 1>>, <<"ene", 1>>, <<"febrero", 2>>, <<"feb", 2>>,
       <<"marzo", 3>>, <<"mar", 3>>, <<"abril", 4>>, <<"abr", 4>>,
       <<"mayo", 5>>, <<"may", 5>>, <<"junio", 6>>, <<"jun", 6>>,
       <<"julio", 7>>, <<"jul", 7>>, <<"agosto", 8>>, <<"ago", 8>>,
       <<"septiembre", 9>>, <<"sep", 9>>, <<"setiembre", 9>>,
       <<"octubre", 10>>, <<"oct", 10>>, <<"noviembre", 11>>, <<"nov", 11>>,
       <<"diciembre", 12>>, <<"dic", 12>> >>

\* re.search(r"(\d{4})", nombre): the leftmost run of four digits
EsAnioEn(nombre, i) == i + 3 <= Len(nombre) /\ EsDigitos(SubSeq(nombre, i, i + 3))

parsear_anio(nombre) ==
    IF \E i \in 1..Len(nombre) : EsAnioEn(nombre, i)
    THEN LET i == CHOOSE k \in 1..Len(nombre) :
                     EsAnioEn(nombre, k) /\ \A j \in 1..(k - 1) : ~EsAnioEn(nombre, j)
         IN Algo(ValorDecimal(SubSeq(nombre, i, i + 3)))
    ELSE None

\* the first key of MAPA_MESES, in its order, contained in the name
parsear_mes(nombre) ==
    IF \E i \in 1..Len(MAPA_MESES) : Contiene(nombre, MAPA_MESES[i][1])
    THEN Algo(MAPA_MESES[CHOOSE k \in 1..Len(MAPA_MESES) :
                  /\ Contiene(nombre, MAPA_MESES[k][1])
                  /\ \A j \in 1..(k - 1) : ~Contiene(nombre, MAPA_MESES[j][1])][1])
    ELSE None

\* returns <<anio, mes_nombre>>, each an optional
parsear_anio_mes_desde_carpeta(nombre) ==
    <<parsear_anio(lower(nombre)), parsear_mes(lower(nombre))>>

(***************************************************************************)
(* DataFrames and Excel files.  A DataFrame is the sequence of its rows;   *)
(* an .xlsx sheet holds the rows written.  A None written by to_excel is a *)
(* blank cell and is read back as NaN: both are None here, and a           *)
(* comparison with it is False, as in pandas.                              *)
(***************************************************************************)
\* element-wise == of pandas between a stored value and a scalar
Coincide(a, b) == ~EsNone(a) /\ ~EsNone(b) /\ Val(a) = Val(b)

\* number of occurrences of x in a sequence
Veces(sec, x) == Cardinality({i \in 1..Len(sec) : sec[i] = x})

Rango(sec) == {sec[i] : i \in 1..Len(sec)}

\* two DataFrames hold the same multiset of rows
MismoMulticonjunto(a, b) ==
    /\ Rango(a) = Rango(b)
    /\ \A x \in Rango(a) : Veces(a, x) = Veces(b, x)

(***************************************************************************)
(* excel_utils.py: preparar_registro, row by row                           *)
(***************************************************************************)
preparar_fila(r) ==
    LET pagado == IF "valor_unitario_original" \in DOMAIN r
                  THEN r.valor_unitario_original ELSE r.valor_unitario_pagado
        valor_pagado == FMul(pagado, r.cantidad_presenta)
    IN [anio |-> r.anio,
        mes |-> r.mes,
        archivo |-> r.archivo,
        contratista |-> r.contratista,
        item |-> r.item,
        descripcion |-> r.descripcion,
        un |-> r.un,
        valor_unitario_pagado |-> pagado,
        valor_pactado |-> r.valor_pactado,
        cantidad_presenta |-> r.cantidad_presenta,
        valor_pagado |-> valor_pagado,
        valor_ajustado |-> r.valor_ajustado,
        descuento |-> FSub(valor_pagado, r.valor_ajustado),
        modo |-> r.modo]

\* every row of the model carries anio and mes, so the two defaults of
\* lines 44-47 never apply
preparar_registro(df, anio, mes) == [i \in 1..Len(df) |-> preparar_fila(df[i])]

(***************************************************************************)
(* pipeline_mes.py: the computations of correr_todo                        *)
(***************************************************************************)
\* a df_nuevo that holds one blank row when nothing was flagged
calcular_df_nuevo_con_fila_en_blanco(registro, anio, mes) ==
    IF registro = <<>>
    THEN <<[anio |-> anio, mes |-> mes, archivo |-> "", contratista |-> CeldaNone,
            item |-> "", descripcion |-> "", un |-> "",
            valor_unitario_pagado |-> NaN, valor_pactado |-> NaN,
            cantidad_presenta |-> NaN, valor_pagado |-> NaN, valor_ajustado |-> NaN,
            descuento |-> NaN, modo |-> ""]>>
    ELSE preparar_registro(registro, anio, mes)

\* df_nuevo (lines 48-50)
calcular_df_nuevo(registro, anio, mes) ==
    IF registro = <<>> THEN <<>> ELSE preparar_registro(registro, anio, mes)

\* the rows of the stored ledger kept by the filter of lines 55-58
EsDeOtroPeriodo(r, anio, mes) == ~(Coincide(r.anio, anio) /\ Coincide(r.mes, mes))

\* a filter that compares the month alone
quitar_periodo_por_mes(df_existente, anio, mes) ==
    LET T(r) == ~Coincide(r.mes, mes) IN SelectSeq(df_existente, T)

quitar_periodo(df_existente, anio, mes) ==
    LET T(r) == EsDeOtroPeriodo(r, anio, mes) IN SelectSeq(df_existente, T)

\* df_combinado (lines 52-62); archivo_base is None when the file does not exist
calcular_df_combinado(archivo_base, df_nuevo, anio, mes) ==
    IF EsNone(archivo_base) THEN df_nuevo
    ELSE preparar_registro(quitar_periodo(Val(archivo_base), anio, mes), anio, mes) \o df_nuevo

\* Series.sum(): NaN entries are skipped
RECURSIVE SumaF(_, _)
SumaF(sec, campo) ==
    IF sec = <<>> THEN Num(0)
    ELSE IF Head(sec)[campo].nan THEN SumaF(Tail(sec), campo)
    ELSE FAdd(Head(sec)[campo], SumaF(Tail(sec), campo))

\* a contractor summary that adds up the amounts paid
resumen_por_contratista_de_lo_pagado(df) ==
    [c \in {df[i].contratista : i \in 1..Len(df)} |->
        LET T(r) == r.contratista = c
            suyas == SelectSeq(df, T)
        IN [Items_con_error |-> Len(suyas),
            Suma_valor_ajustado |-> SumaF(suyas, "valor_pagado")]]

\* groupby("contratista").agg(count(item), sum(valor_ajustado)): a function
\* from each contractor present to its two aggregates
resumen_por_contratista(df) ==
    [c \in {df[i].contratista : i \in 1..Len(df)} |->
        LET T(r) == r.contratista = c
            suyas == SelectSeq(df, T)
        IN [Items_con_error |-> Len(suyas),
            Suma_valor_ajustado |-> SumaF(suyas, "valor_ajustado")]]

\* a category summary that keeps the totals of the contractor's last
\* certificate instead of adding them up
resumen_cantidades_del_ultimo(cantidades) ==
    [c \in {cantidades[i].contratista : i \in 1..Len(cantidades)} |->
        LET T(r) == r.contratista = c
            suyas == SelectSeq(cantidades, T)
        IN [f \in Familias |-> suyas[Len(suyas)][f]]]

\* groupby("contratista")[four categories].sum() over base_cantidades
resumen_cantidades(cantidades) ==
    [c \in {cantidades[i].contratista : i \in 1..Len(cantidades)} |->
        LET T(r) == r.contratista = c
            suyas == SelectSeq(cantidades, T)
        IN [f \in Familias |-> SumaF(suyas, f)]]

\* the monthly summary workbook (lines 71-103)
hojas_resumen_mes(df_nuevo, cantidades) ==
    [RESUMEN |-> resumen_por_contratista(df_nuevo),
     REGISTRO |-> df_nuevo,
     CANTIDADES |-> IF cantidades # <<>> THEN Algo(resumen_cantidades(cantidades)) ELSE None]

\* groupby(["anio", "mes", "contratista"], dropna=False)
resumen_por_periodo(df) ==
    [k \in {<<df[i].anio, df[i].mes, df[i].contratista>> : i \in 1..Len(df)} |->
        LET T(r) == <<r.anio, r.mes, r.contratista>> = k
            suyas == SelectSeq(df, T)
        IN [Items_con_error |-> Len(suyas),
            Suma_valor_ajustado |-> SumaF(suyas, "valor_ajustado")]]

\* df_registro_final (lines 121-134); archivo_global is None when
\* resumen_global.xlsx does not exist
calcular_registro_final(archivo_global, df_nuevo, anio, mes) ==
    IF ~EsNone(archivo_global) /\ Val(archivo_global).REGISTRO # <<>>
    THEN preparar_registro(Val(archivo_global).REGISTRO, anio, mes) \o df_nuevo
    ELSE df_nuevo

hojas_resumen_global(combinado, archivo_global, df_nuevo, anio, mes) ==
    [RESUMEN |-> resumen_por_periodo(combinado),
     REGISTRO |-> calcular_registro_final(archivo_global, df_nuevo, anio, mes)]

(***************************************************************************)
(* procesar_actas.py: revisar_acta up to the loop over rows                *)
(***************************************************************************)
nombres_corte == <<"CORTE", "Corte", "Corte ", "corte">>
nombres_corte_cr == <<"CORTE", "Corte", "corte", "Corte ">>

sheetnames(wb) == {wb.hojas[i][1] : i \in 1..Len(wb.hojas)}

\* wb[nombre]
hoja(wb, nombre) == wb.hojas[CHOOSE i \in 1..Len(wb.hojas) : wb.hojas[i][1] = nombre][2]

\* the first of the accepted names that is a sheet of the workbook
buscar_hoja_corte(wb, nombres) ==
    IF \E i \in 1..Len(nombres) : nombres[i] \in sheetnames(wb)
    THEN Algo(nombres[CHOOSE i \in 1..Len(nombres) :
                  /\ nombres[i] \in sheetnames(wb)
                  /\ \A j \in 1..(i - 1) : nombres[j] \notin sheetnames(wb)])
    ELSE None

\* a or b
o_bien(a, b) == IF py_bool(a) THEN a ELSE b

contratista_normal(ws) ==
    o_bien(celda(ws, "C", 6), o_bien(celda(ws, "D", 6), CeldaStr("SIN NOMBRE")))

contratista_cr(ws) ==
    o_bien(celda(ws, "B", 6),
           o_bien(celda(ws, "C", 6), o_bien(celda(ws, "D", 6), CeldaStr("SIN NOMBRE"))))

\* the dict appended to base_cantidades when the certificate is done
registro_cantidades(archivo) ==
    [anio |-> anio_actual,
     mes |-> mes_nombre,
     archivo |-> archivo,
     contratista |-> nombre_contratista,
     modo |-> IF backend = "critico" \/ modo_critico THEN "CRITICO" ELSE "NORMAL"]
    @@ [f \in Familias |-> totales_cant[f]]

\* os.path.basename(path_archivo).replace(".xlsx", "_verificado.xlsx")
nombre_salida(archivo) == replace(archivo, ".xlsx", "_verificado.xlsx")

(***************************************************************************)
(* pipeline_mes.py: correr_todo, step by step                              *)
(***************************************************************************)
MaxCorridas == 2

endswith(s, sufijo) ==
    Len(s) >= Len(sufijo) /\ SubSeq(s, Len(s) - Len(sufijo) + 1, Len(s)) = sufijo

\* os.listdir(carpeta_mes)
Archivos == carpetas[nombre_carpeta_mes]

\* an early return that ends the call with an exception instead
tras_omitir_con_excepcion(i) == [pc |-> "excepcion", idx |-> i]

\* what the for loop over the files does after a revisar_acta call that
\* returned early: the next file
tras_omitir(i) == [pc |-> "archivos", idx |-> i + 1]

LocalesEnReposo ==
    /\ hoja_corte' = None
    /\ nombre_contratista' = CeldaNone
    /\ columnas' = <<>>
    /\ col_valor' = None
    /\ fila' = 0
    /\ totales_cant' = TotalesCero

\* a call of correr_todo: lines 10-27
IniciarCorrerTodo ==
    /\ pc = "reposo"
    /\ corridas < MaxCorridas
    /\ \E carpeta \in DOMAIN carpetas, b \in {"normal", "critico"}, m \in BOOLEAN :
         /\ (b = "critico") => m
         /\ backend' = b
         /\ modo_critico' = m
         /\ nombre_carpeta_mes' = carpeta
         /\ anio_actual' = parsear_anio_mes_desde_carpeta(carpeta)[1]
         /\ mes_nombre' = parsear_anio_mes_desde_carpeta(carpeta)[2]
    /\ pc' = "archivos"
    /\ idx' = 1
    /\ base_registro' = <<>>
    /\ base_cantidades' = <<>>
    /\ df_combinado' = <<>>
    /\ corridas' = corridas + 1
    /\ revisadas' = <<>>
    /\ rama' = ""
    /\ LocalesEnReposo
    /\ UNCHANGED <<varsGlobales, varsBD, varsLote, varsFn, varsEntradas, varsArchivos, previa>>

\* a directory entry that does not end in .xlsx
OmitirArchivo ==
    /\ pc = "archivos"
    /\ idx <= Len(Archivos)
    /\ ~endswith(lower(Archivos[idx]), ".xlsx")
    /\ idx' = idx + 1
    /\ rama' = "no_xlsx"
    /\ UNCHANGED <<varsGlobales, varsBD, varsLote, varsFn, varsEntradas, varsArchivos, varsHistoria,
                   pc, backend, modo_critico, nombre_carpeta_mes, anio_actual, mes_nombre,
                   base_registro, base_cantidades, df_combinado,
                   hoja_corte, nombre_contratista, columnas, col_valor, fila, totales_cant>>

\* revisar_acta from its call to the start of the loop over rows
AbrirActa ==
    /\ pc = "archivos"
    /\ idx <= Len(Archivos)
    /\ endswith(lower(Archivos[idx]), ".xlsx")
    /\ revisadas' = Append(revisadas, Archivos[idx])
    /\ LET wb == libros[Archivos[idx]]
           nombre == IF wb.legible
                     THEN buscar_hoja_corte(wb, IF backend = "critico" THEN nombres_corte_cr
                                                ELSE nombres_corte)
                     ELSE None
           ws == hoja(wb, Val(nombre))
           cols == obtener_columnas(ws)
       IN IF ~wb.legible \/ EsNone(nombre) \/ EsNone(columna_valor(cols))
          THEN /\ rama' = IF ~wb.legible THEN "error_al_abrir"
                          ELSE IF EsNone(nombre) THEN "sin_hoja_corte"
                          ELSE "sin_columna_valor"
               /\ pc' = tras_omitir(idx).pc
               /\ idx' = tras_omitir(idx).idx
               /\ LocalesEnReposo
          ELSE /\ rama' = "abierta"
               /\ hoja_corte' = nombre
               /\ nombre_contratista' = IF backend = "critico" THEN contratista_cr(ws)
                                        ELSE contratista_normal(ws)
               /\ columnas' = cols
               /\ col_valor' = columna_valor(cols)
               /\ fila' = 10
               /\ totales_cant' = TotalesCero
               /\ pc' = "filas"
               /\ idx' = idx
    /\ UNCHANGED <<varsGlobales, varsBD, varsLote, varsFn, varsEntradas, varsArchivos, corridas, previa,
                   backend, modo_critico, nombre_carpeta_mes, anio_actual, mes_nombre,
                   base_registro, base_cantidades, df_combinado>>

\* the worksheet revisar_acta is reading
HojaActual == hoja(libros[Archivos[idx]], Val(hoja_corte))

\* the key of the lookup of lines 335-350: (desc_norm, unidad)
clave_de_referencia(ws, f) ==
    <<normalizar(strip(py_str(celda(ws, DictGetDef(columnas, "DESCRIPCIÓN", "B"), f)))),
      normalizar_unidad(CeldaComoTexto(celda(ws, DictGetDef(columnas, "UN", "D"), f)))>>

\* a lookup that enters the key it did not find
referencias_tras_buscar_con_alta(referencias, clave) ==
    IF DictTiene(referencias, clave) THEN referencias
    ELSE DictSet(referencias, clave, Num(0))

\* valores_referencia after valores_referencia.get(key, None) (line 346):
\* dict.get enters nothing
referencias_tras_buscar(referencias, clave) == referencias

\* an append that stores the record twice
anexar_registro_doble(base, registro) ==
    IF EsNone(registro) THEN base ELSE Append(Append(base, Val(registro)), Val(registro))

\* base_registro after the iteration: base_registro.append(...) when the
\* iteration built a record
anexar_registro(base, registro) ==
    IF EsNone(registro) THEN base ELSE Append(base, Val(registro))

\* one iteration of the loop over rows
RevisarFila ==
    /\ pc = "filas"
    /\ fila <= max_row(HojaActual)
    /\ LET it == IF backend = "critico" THEN iteracion_cr(HojaActual, Archivos[idx], fila)
                 ELSE iteracion_normal(HojaActual, Archivos[idx], fila)
       IN /\ rama' = it.rama
          /\ base_registro' = anexar_registro(base_registro, it.registro)
          /\ totales_cant' = [f \in Familias |-> FAdd(totales_cant[f], it.suma[f])]
          /\ valores_referencia' =
                 IF /\ backend = "normal"
                    /\ ~modo_critico
                    /\ it.rama \in {"sin_valor_referencia", "dentro_tolerancia", "registrado"}
                 THEN referencias_tras_buscar(valores_referencia,
                                              clave_de_referencia(HojaActual, fila))
                 ELSE valores_referencia
    /\ fila' = fila + 1
    /\ UNCHANGED <<varsGlobales, varsBD, varsLote, varsFn, carpetas, libros, varsArchivos, varsHistoria,
                   pc, backend, modo_critico, nombre_carpeta_mes, anio_actual, mes_nombre,
                   idx, base_cantidades, df_combinado,
                   hoja_corte, nombre_contratista, columnas, col_valor>>

\* _extraer_cantidades_por_familia, rows f..max_row: the quantities of the
\* rows the classifier puts in each family, in sheet order
RECURSIVE bucle_extraer(_, _, _)
bucle_extraer(ws, f, tablas) ==
    IF f > max_row(ws) THEN tablas
    ELSE LET item == TextoOVacio(celda(ws, DictGetDef(columnas, "ÍTEM", "A"), f))
             desc_raw == celda(ws, DictGetDef(columnas, "DESCRIPCIÓN", "B"), f)
             descripcion == strip(py_str(desc_raw))
             cantidad == py_float(celda(ws, IF backend = "critico" THEN "G" ELSE "I", f))
             desc_norm == IF backend = "critico" THEN normalizar_cr(descripcion)
                          ELSE normalizar(descripcion)
             familia == IF backend = "critico" THEN _clasificar_familia_cr(desc_norm)
                        ELSE _clasificar_familia(desc_norm)
         IN IF \/ item = "" \/ ~py_bool(desc_raw)
               \/ EsNone(cantidad) \/ FEsCero(Val(cantidad)) \/ Val(cantidad).nan
               \/ desc_norm = "" \/ EsNone(familia)
            THEN bucle_extraer(ws, f + 1, tablas)
            ELSE bucle_extraer(ws, f + 1,
                     [tablas EXCEPT ![Val(familia)] = Append(@, Val(cantidad))])

_extraer_cantidades_por_familia(ws) ==
    bucle_extraer(ws, 10,
        [fam \in {"RELLENOS", "EXCAVACIONES", "CONCRETO_MR", "CONCRETO_ESTAMPADO"} |-> <<>>])

\* max(max_len, len(...)) over the four families
max_len(tablas) ==
    CHOOSE n \in {Len(tablas[f]) : f \in DOMAIN tablas} :
        \A f \in DOMAIN tablas : Len(tablas[f]) <= n

\* the cell of the TOTAL row in column col: a =SUM formula over the rows
\* 2..fila_total-1, or 0 when no family has a quantity
celda_total(col, fila_total, maximo) ==
    IF maximo > 0
    THEN CeldaStr("=SUM(" \o col \o "2:" \o col \o py_str_nat(fila_total - 1) \o ")")
    ELSE CeldaNum(0)

\* _crear_hoja_cuadro_cantidades: in each of the columns B..E the title of
\* row 1, the quantities of its family from row 2 down and the cell of the
\* TOTAL row; in column A the label of the TOTAL row, which stands under
\* the longest column
_crear_hoja_cuadro_cantidades(tablas) ==
    LET fila_total == 2 + max_len(tablas)
        columna(col, titulo, familia) ==
            [titulo |-> titulo, cantidades |-> tablas[familia],
             total |-> celda_total(col, fila_total, max_len(tablas))]
    IN ("A" :> [fila_total |-> fila_total, etiqueta |-> "TOTAL"])
       @@ ("B" :> columna("B", "Excavacione", "EXCAVACIONES"))
       @@ ("C" :> columna("C", "Rellenos", "RELLENOS"))
       @@ ("D" :> columna("D", "Concreto MR", "CONCRETO_MR"))
       @@ ("E" :> columna("E", "Concreto estampado", "CONCRETO_ESTAMPADO"))

\* revisar_acta after the loop: the totals of the certificate and the
\* verified workbook
CerrarActa ==
    /\ pc = "filas"
    /\ fila > max_row(HojaActual)
    /\ cuadro' = Algo(_crear_hoja_cuadro_cantidades(_extraer_cantidades_por_familia(HojaActual)))
    /\ base_cantidades' = Append(base_cantidades, registro_cantidades(Archivos[idx]))
    /\ salidas' = salidas \cup {<<nombre_carpeta_mes, nombre_salida(Archivos[idx])>>}
    /\ rama' = "guardada"
    /\ pc' = "archivos"
    /\ idx' = idx + 1
    /\ UNCHANGED <<varsGlobales, varsBD, varsLote, varsFn, varsEntradas, varsHistoria,
                   base_general, resumen_mes, resumen_global,
                   backend, modo_critico, nombre_carpeta_mes, anio_actual, mes_nombre,
                   base_registro, df_combinado,
                   hoja_corte, nombre_contratista, columnas, col_valor, fila, totales_cant>>

\* wb.save of the verified workbook raises (control_normal line 406,
\* control_critico line 343): the call stands outside every try block, so
\* the exception leaves revisar_acta and correr_todo after the totals of
\* the certificate were appended; nothing is saved
FallarGuardar ==
    /\ pc = "filas"
    /\ fila > max_row(HojaActual)
    /\ base_cantidades' = Append(base_cantidades, registro_cantidades(Archivos[idx]))
    /\ rama' = "error_guardar"
    /\ pc' = "excepcion"
    /\ UNCHANGED <<varsGlobales, varsBD, varsLote, varsFn, varsEntradas, varsHistoria,
                   varsArchivos,
                   backend, modo_critico, nombre_carpeta_mes, anio_actual, mes_nombre,
                   idx, base_registro, df_combinado,
                   hoja_corte, nombre_contratista, columnas, col_valor, fila, totales_cant>>

\* df_nuevo of the current call
df_nuevo == calcular_df_nuevo(base_registro, anio_actual, mes_nombre)

\* base_general.xlsx is read, filtered, extended and written
EscribirBaseGeneral ==
    /\ pc = "archivos"
    /\ idx > Len(Archivos)
    /\ df_combinado' = calcular_df_combinado(base_general, df_nuevo, anio_actual, mes_nombre)
    /\ base_general' = Algo(df_combinado')
    /\ pc' = "resumen_mes"
    /\ rama' = "base_general"
    /\ UNCHANGED <<varsGlobales, varsBD, varsLote, varsFn, varsEntradas, varsHistoria, varsActa_sin_rama,
                   resumen_mes, resumen_global, salidas, cuadro,
                   backend, modo_critico, nombre_carpeta_mes, anio_actual, mes_nombre,
                   idx, base_registro, base_cantidades>>

\* resumen_<folder>.xlsx, written only when records were flagged
EscribirResumenMes ==
    /\ pc = "resumen_mes"
    /\ resumen_mes' = IF df_nuevo # <<>>
                      THEN [resumen_mes EXCEPT ![nombre_carpeta_mes] =
                                Algo(hojas_resumen_mes(df_nuevo, base_cantidades))]
                      ELSE resumen_mes
    /\ pc' = IF backend = "normal" THEN "resumen_global" ELSE "retorno"
    /\ rama' = "resumen_mes"
    /\ UNCHANGED <<varsGlobales, varsBD, varsLote, varsFn, varsEntradas, varsHistoria, varsActa_sin_rama,
                   base_general, resumen_global, salidas, cuadro,
                   backend, modo_critico, nombre_carpeta_mes, anio_actual, mes_nombre,
                   idx, base_registro, base_cantidades, df_combinado>>

\* resumen_global.xlsx (control_normal only), written only when the ledger
\* is not empty
EscribirResumenGlobal ==
    /\ pc = "resumen_global"
    /\ resumen_global' = IF df_combinado # <<>>
                         THEN Algo(hojas_resumen_global(df_combinado, resumen_global, df_nuevo,
                                                        anio_actual, mes_nombre))
                         ELSE resumen_global
    /\ pc' = "retorno"
    /\ rama' = "resumen_global"
    /\ UNCHANGED <<varsGlobales, varsBD, varsLote, varsFn, varsEntradas, varsHistoria, varsActa_sin_rama,
                   base_general, resumen_mes, salidas, cuadro,
                   backend, modo_critico, nombre_carpeta_mes, anio_actual, mes_nombre,
                   idx, base_registro, base_cantidades, df_combinado>>

\* a write error that the call goes on after
tras_error_de_escritura_tragado(siguiente) == siguiente

\* where correr_todo is after one of its writes raised: no try block
\* surrounds to_excel or ExcelWriter, the exception leaves the call
tras_error_de_escritura(siguiente) == "excepcion"

ErroresDeEscritura ==
    {"error_base_general", "error_resumen_mes", "error_resumen_global"}

\* to_excel of base_general.xlsx raises (line 64)
FallarBaseGeneral ==
    /\ pc = "archivos"
    /\ idx > Len(Archivos)
    /\ df_combinado' = calcular_df_combinado(base_general, df_nuevo, anio_actual, mes_nombre)
    /\ pc' = tras_error_de_escritura("resumen_mes")
    /\ rama' = "error_base_general"
    /\ UNCHANGED <<varsGlobales, varsBD, varsLote, varsFn, varsEntradas, varsArchivos, varsHistoria,
                   varsActa_sin_rama,
                   backend, modo_critico, nombre_carpeta_mes, anio_actual, mes_nombre,
                   idx, base_registro, base_cantidades>>

\* the ExcelWriter of resumen_<folder>.xlsx raises (lines 83-103)
FallarResumenMes ==
    /\ pc = "resumen_mes"
    /\ df_nuevo # <<>>
    /\ pc' = tras_error_de_escritura(IF backend = "normal" THEN "resumen_global" ELSE "retorno")
    /\ rama' = "error_resumen_mes"
    /\ UNCHANGED <<varsGlobales, varsBD, varsLote, varsFn, varsEntradas, varsArchivos, varsHistoria,
                   varsActa_sin_rama,
                   backend, modo_critico, nombre_carpeta_mes, anio_actual, mes_nombre,
                   idx, base_registro, base_cantidades, df_combinado>>

\* the ExcelWriter of resumen_global.xlsx raises (lines 136-138)
FallarResumenGlobal ==
    /\ pc = "resumen_global"
    /\ df_combinado # <<>>
    /\ pc' = tras_error_de_escritura("retorno")
    /\ rama' = "error_resumen_global"
    /\ UNCHANGED <<varsGlobales, varsBD, varsLote, varsFn, varsEntradas, varsArchivos, varsHistoria,
                   varsActa_sin_rama,
                   backend, modo_critico, nombre_carpeta_mes, anio_actual, mes_nombre,
                   idx, base_registro, base_cantidades, df_combinado>>

\* correr_todo returns its dict
Retornar ==
    /\ pc = "retorno"
    /\ meses = None
    /\ pc' = "reposo"
    /\ previa' = Algo([carpeta |-> nombre_carpeta_mes, backend |-> backend,
                       modo_critico |-> modo_critico])
    /\ rama' = "retorno"
    /\ UNCHANGED <<varsGlobales, varsBD, varsLote, varsFn, varsEntradas, varsArchivos, varsActa_sin_rama,
                   corridas, revisadas,
                   backend, modo_critico, nombre_carpeta_mes, anio_actual, mes_nombre,
                   idx, base_registro, base_cantidades, df_combinado>>

Next ==
    \/ IniciarCorrerTodo
    \/ OmitirArchivo
    \/ AbrirActa
    \/ RevisarFila
    \/ CerrarActa
    \/ FallarGuardar
    \/ EscribirBaseGeneral
    \/ EscribirResumenMes
    \/ EscribirResumenGlobal
    \/ FallarBaseGeneral
    \/ FallarResumenMes
    \/ FallarResumenGlobal
    \/ Retornar

NextActa ==
    \/ AbrirActa
    \/ RevisarFila
    \/ CerrarActa
    \/ FallarGuardar

(***************************************************************************)
(* The project on disk: period folders, certificates, reference prices     *)
(***************************************************************************)
\* a data row: item, description, unit, declared unit price, quantity (the
\* quantity stands in column G and in column I)
FilaActa(item, desc, un, valor, cant) ==
    <<item, desc, un, CeldaNone, valor, CeldaNone, cant, CeldaNone, cant, CeldaNone>>

SinCeldas == [i \in 1..10 |-> CeldaNone]

Fila8 == [SinCeldas EXCEPT ![1] = CeldaStr("ÍTEM"), ![2] = CeldaStr("DESCRIPCIÓN"),
                           ![3] = CeldaStr("UN"), ![4] = CeldaStr("CANT"),
                           ![5] = CeldaStr("VALOR")]
Fila9 == [SinCeldas EXCEPT ![5] = CeldaStr("UNITARIO")]
Fila8_una_linea == [Fila8 EXCEPT ![5] = CeldaStr("Valor unitario ($)")]
Fila8_sin_valor == [Fila8 EXCEPT ![5] = CeldaStr("PRECIO")]

Hoja(fila6, fila8, fila9, filas) ==
    [max_column |-> 10, fila6 |-> fila6, fila8 |-> fila8, fila9 |-> fila9, filas |-> filas]

Libro(nombre, ws) == [legible |-> TRUE, hojas |-> <<<<"Portada", Hoja(SinCeldas, SinCeldas, SinCeldas, <<>>)>>, <<nombre, ws>>>>]

LibroIlegible == [legible |-> FALSE, hojas |-> <<>>]

FilaMarcada ==
    FilaActa(CeldaStr("1.1"), CeldaStr("Excavación mecánica"), CeldaStr("m³"),
             CeldaNum(1500), CeldaNum(10))

LibroSinCorte ==
    [legible |-> TRUE,
     hojas |-> <<<<"Hoja1", Hoja([SinCeldas EXCEPT ![3] = CeldaStr("ACME")], Fila8, Fila9,
                                 <<FilaMarcada>>)>>>>]

LibroSinValor ==
    Libro("CORTE", Hoja([SinCeldas EXCEPT ![3] = CeldaStr("ACME")], Fila8_sin_valor, Fila9,
                        <<FilaMarcada>>))

LibroActa1 ==
    Libro("CORTE",
          Hoja([SinCeldas EXCEPT ![3] = CeldaStr("ACME")], Fila8, Fila9,
               << FilaMarcada,
                  FilaActa(CeldaStr("1.2"), CeldaStr("Relleno"), CeldaStr("und"),
                           CeldaNum(800), CeldaNum(5)),
                  FilaActa(CeldaStr("2.1"), CeldaStr("Mano de obra excavación"),
                           CeldaStr("und"), CeldaNum(300), CeldaNum(2)),
                  FilaActa(CeldaStr("3.1"), CeldaStr("Base granular"), CeldaStr("und"),
                           CeldaNum(1001), CeldaNum(4)) >>))

LibroActa2 ==
    Libro("Corte ",
          Hoja([SinCeldas EXCEPT ![4] = CeldaStr("BETA")], Fila8_una_linea, SinCeldas,
               << FilaActa(CeldaStr("4.1"), CeldaStr("Subbase granular"), CeldaStr("m³"),
                           CeldaStr("$1,001"), CeldaNum(2)),
                  FilaActa(CeldaStr("4.2"), CeldaStr("Relleno"), CeldaStr("m³"),
                           CeldaNum(700), CeldaNum(3)) >>))

\* a second certificate of the contractor of acta1.xlsx
LibroActa3 ==
    Libro("corte",
          Hoja([SinCeldas EXCEPT ![3] = CeldaStr("ACME")], Fila8, Fila9,
               << FilaActa(CeldaStr("5.1"), CeldaStr("Excavación mecánica"), CeldaStr("M3"),
                           CeldaNum(1200), CeldaNum(3)),
                  FilaActa(CeldaStr("5.2"), CeldaStr("Relleno"), CeldaStr("m³"),
                           CeldaNum(500), CeldaNum(4)) >>))

CarpetasProyecto ==
    ("julio2025" :> <<"danada.xlsx", "notas.txt", "acta1.xlsx", "acta2.xlsx", "acta3.xlsx",
                      "sin_corte.xlsx">>)
    @@ ("agosto2025" :> <<"acta2.xlsx", "sin_valor.XLSX">>)
    @@ ("julio" :> <<"acta1.xlsx">>)
    @@ ("septiembre2025" :> <<>>)

LibrosProyecto ==
    ("danada.xlsx" :> LibroIlegible)
    @@ ("acta1.xlsx" :> LibroActa1)
    @@ ("sin_corte.xlsx" :> LibroSinCorte)
    @@ ("acta2.xlsx" :> LibroActa2)
    @@ ("acta3.xlsx" :> LibroActa3)
    @@ ("sin_valor.XLSX" :> LibroSinValor)

\* the dict the loader hands to correr_todo
ValoresReferencia ==
    << << <<"excavacion mecanica", "M3">>, Num(1000) >>,
       << <<"base granular", "UN">>, Num(1000) >>,
       << <<"relleno", "M3">>, Num(500) >> >>

\* before any call of correr_todo: no file written yet
InitReposo ==
    /\ base_general = None
    /\ resumen_mes = [c \in DOMAIN carpetas |-> None]
    /\ resumen_global = None
    /\ salidas = {}
    /\ cuadro = None
    /\ pc = "reposo"
    /\ backend = "normal"
    /\ modo_critico = FALSE
    /\ nombre_carpeta_mes = ""
    /\ anio_actual = None
    /\ mes_nombre = None
    /\ idx = 0
    /\ base_registro = <<>>
    /\ base_cantidades = <<>>
    /\ df_combinado = <<>>
    /\ hoja_corte = None
    /\ nombre_contratista = CeldaNone
    /\ columnas = <<>>
    /\ col_valor = None
    /\ fila = 0
    /\ totales_cant = TotalesCero
    /\ rama = ""
    /\ corridas = 0
    /\ previa = None
    /\ revisadas = <<>>
    /\ InitBD
    /\ SinLote

InitProyecto ==
    /\ listado = <<"julio2025", "agosto2025", "julio", "septiembre2025">>
    /\ carpetas = CarpetasProyecto
    /\ libros = LibrosProyecto
    /\ valores_referencia = ValoresReferencia

Init ==
    /\ InitGlobales
    /\ entrada = ""
    /\ funcion = ""
    /\ salida = None
    /\ InitProyecto
    /\ InitReposo

Spec == Init /\ [][Next]_vars

(***************************************************************************)
(* meses.py: listar_carpetas_mes; pipeline_mes.py: correr_todos_los_meses  *)
(***************************************************************************)
\* os.path.isdir of an entry of actas/
isdir(nombre) == nombre \in DOMAIN carpetas

\* the dict listar_carpetas_mes builds for a folder (lines 55-60)
entrada_de_mes(nombre) ==
    [carpeta |-> nombre,
     anio |-> parsear_anio_mes_desde_carpeta(nombre)[1],
     mes_nombre |-> parsear_anio_mes_desde_carpeta(nombre)[2]]

\* clave_orden (lines 62-65): (anio or 0, MAPA_MESES.get(mes_nombre, 0))
clave_orden(m) ==
    << IF EsNone(m.anio) THEN 0 ELSE Val(m.anio),
       IF EsNone(m.mes_nombre) THEN 0 ELSE DictGetDef(MAPA_MESES, Val(m.mes_nombre), 0) >>

\* tuple comparison a <= b
ClaveMenorOIgual(a, b) == a[1] < b[1] \/ (a[1] = b[1] /\ a[2] <= b[2])

\* the element m put behind the elements of an ordered list that do not
\* come after it
insertar_en_orden(lista, m) ==
    LET antes == {i \in 1..Len(lista) : ClaveMenorOIgual(clave_orden(lista[i]), clave_orden(m))}
        k == Cardinality(antes)
    IN SubSeq(lista, 1, k) \o <<m>> \o SubSeq(lista, k + 1, Len(lista))

\* a list left in the order of the directory listing
sort_que_no_ordena(lista) == lista

\* list.sort(key=clave_orden) (line 67): ascending and stable
RECURSIVE sort(_)
sort(lista) ==
    IF lista = <<>> THEN <<>>
    ELSE insertar_en_orden(sort(SubSeq(lista, 1, Len(lista) - 1)), lista[Len(lista)])

listar_carpetas_mes(lista) ==
    LET carpetas_de_mes == SelectSeq(lista, isdir)
    IN sort([i \in 1..Len(carpetas_de_mes) |-> entrada_de_mes(carpetas_de_mes[i])])

\* correr_todos_los_meses up to its loop (lines 152-158); each backend
\* calls its own correr_todo with the default modo_critico
Llamar_correr_todos_los_meses ==
    /\ pc = "reposo"
    /\ meses = None
    /\ \E b \in {"normal", "critico"} :
         /\ backend' = b
         /\ modo_critico' = (b = "critico")
    /\ meses' = Algo(listar_carpetas_mes(listado))
    /\ resultados' = <<>>
    /\ pc' = "lote"
    /\ rama' = "lote"
    /\ UNCHANGED <<varsGlobales, varsBD, varsFn, varsEntradas, varsArchivos, varsHistoria,
                   varsActa_sin_rama, listado,
                   nombre_carpeta_mes, anio_actual, mes_nombre,
                   idx, base_registro, base_cantidades, df_combinado>>

\* the loop calls correr_todo for the next folder (lines 160-163, then
\* lines 10-27 of correr_todo)
SiguienteMes ==
    /\ pc = "lote"
    /\ Len(resultados) < Len(Val(meses))
    /\ LET m == Val(meses)[Len(resultados) + 1]
       IN /\ nombre_carpeta_mes' = m.carpeta
          /\ anio_actual' = parsear_anio_mes_desde_carpeta(m.carpeta)[1]
          /\ mes_nombre' = parsear_anio_mes_desde_carpeta(m.carpeta)[2]
    /\ pc' = "archivos"
    /\ idx' = 1
    /\ base_registro' = <<>>
    /\ base_cantidades' = <<>>
    /\ df_combinado' = <<>>
    /\ corridas' = corridas + 1
    /\ revisadas' = <<>>
    /\ rama' = ""
    /\ LocalesEnReposo
    /\ UNCHANGED <<varsGlobales, varsBD, varsLote, varsFn, varsEntradas, varsArchivos, previa,
                   backend, modo_critico>>

\* correr_todo returns its dict and the loop appends it (line 164)
RecogerResultado ==
    /\ pc = "retorno"
    /\ meses # None
    /\ resultados' = Append(resultados, [anio |-> anio_actual, mes |-> mes_nombre,
                                          carpeta_mes |-> nombre_carpeta_mes])
    /\ previa' = Algo([carpeta |-> nombre_carpeta_mes, backend |-> backend,
                       modo_critico |-> modo_critico])
    /\ pc' = "lote"
    /\ rama' = "retorno"
    /\ UNCHANGED <<varsGlobales, varsBD, varsFn, varsEntradas, varsArchivos, varsActa_sin_rama,
                   corridas, revisadas, listado, meses,
                   backend, modo_critico, nombre_carpeta_mes, anio_actual, mes_nombre,
                   idx, base_registro, base_cantidades, df_combinado>>

\* correr_todos_los_meses returns resultados (lines 156-158 and 166-167)
TerminarLote ==
    /\ pc = "lote"
    /\ Len(resultados) = Len(Val(meses))
    /\ pc' = "lote_retorno"
    /\ rama' = "lote_retorno"
    /\ UNCHANGED <<varsGlobales, varsBD, varsLote, varsFn, varsEntradas, varsArchivos,
                   varsHistoria, varsActa_sin_rama,
                   backend, modo_critico, nombre_carpeta_mes, anio_actual, mes_nombre,
                   idx, base_registro, base_cantidades, df_combinado>>

NextLote ==
    \/ Llamar_correr_todos_los_meses
    \/ SiguienteMes
    \/ OmitirArchivo
    \/ AbrirActa
    \/ RevisarFila
    \/ CerrarActa
    \/ FallarGuardar
    \/ EscribirBaseGeneral
    \/ EscribirResumenMes
    \/ EscribirResumenGlobal
    \/ FallarBaseGeneral
    \/ FallarResumenMes
    \/ FallarResumenGlobal
    \/ RecogerResultado
    \/ TerminarLote

\* a project whose folders include two with the same (year, month), one
\* of an earlier year and one without a year
CarpetasLote ==
    ("julio2025" :> <<"acta3.xlsx">>)
    @@ ("jul2025" :> <<>>)
    @@ ("agosto2024" :> <<"notas.txt", "acta2.xlsx">>)
    @@ ("julio" :> <<>>)

Permutaciones(S) ==
    {p \in [1..Cardinality(S) -> S] : \A i, j \in 1..Cardinality(S) : p[i] = p[j] => i = j}

\* the listings of actas/: a file and the folders in any order, or the
\* file alone in a project without folders
InitLote ==
    /\ InitGlobales
    /\ entrada = ""
    /\ funcion = ""
    /\ salida = None
    /\ \/ /\ carpetas = CarpetasLote
          /\ \E p \in Permutaciones(DOMAIN CarpetasLote) : listado = <<"leeme.txt">> \o p
       \/ /\ carpetas = <<>>
          /\ listado = <<"leeme.txt">>
    /\ libros = LibrosProyecto
    /\ valores_referencia = ValoresReferencia
    /\ InitReposo

SpecLote == InitLote /\ [][NextLote]_vars

(***************************************************************************)
(* revisar_acta on one certificate drawn from a family of certificates     *)
(***************************************************************************)
DescripcionesActa == {"Excavación mecánica", "Base granular", "Relleno"}
UnidadesActa == {CeldaNone, CeldaStr("m³"), CeldaStr("und")}
ValoresActa ==
    {CeldaNone, CeldaNum(998), CeldaNum(999), CeldaNum(1000), CeldaNum(1001),
     CeldaNum(1002), CeldaStr("$1,002"), CeldaStr("abc"), CeldaStr("nan")}
CantidadesActa ==
    {CeldaNone, CeldaNum(0), CeldaStr("x"), CeldaStr("nan"), CeldaNum(-3), CeldaStr("7")}

FilasPrecio ==
    {FilaActa(CeldaStr("1.1"), CeldaStr(d), u, v, CeldaNum(7)) :
        d \in DescripcionesActa, u \in UnidadesActa, v \in ValoresActa}

FilasCantidad ==
    {FilaActa(CeldaStr("1.1"), CeldaStr(d), CeldaStr("m³"), v, c) :
        d \in {"Excavación mecánica", "Relleno"}, v \in {CeldaNum(1500), CeldaStr("abc")},
        c \in CantidadesActa}

FilasFiltro ==
    {FilaActa(i, d, CeldaStr("m³"), CeldaNum(1500), CeldaNum(7)) :
        i \in {CeldaNone, CeldaStr("MR45-1"), CeldaStr("1.1")},
        d \in {CeldaNone, CeldaStr("Mano de obra excavación"),
               CeldaStr("Peaje excavación mecánica"),
               CeldaStr("Excavación mecánica"), CeldaStr("Concreto MR estampado")}}

FilasActa == FilasPrecio \cup FilasCantidad \cup FilasFiltro

FilasSegunda ==
    {FilaActa(CeldaStr("9.1"), CeldaStr("Base granular"), CeldaStr("und"),
              CeldaNum(1200), CeldaNum(3)),
     FilaActa(CeldaStr("9.2"), CeldaStr("Relleno"), CeldaNone,
              CeldaNum(100), CeldaNum(2))}

LibroDeFilas(filas) ==
    Libro("CORTE", Hoja([SinCeldas EXCEPT ![3] = CeldaStr("ACME")], Fila8, Fila9, filas))

\* certificates whose data sheet is named with another spelling of CORTE
LibrosOtraGrafia ==
    {Libro(n, Hoja([SinCeldas EXCEPT ![3] = CeldaStr("ACME")], Fila8, Fila9, <<FilaMarcada>>)) :
        n \in {"CORTE ", "cORTE"}}

LibrosActa ==
    {LibroIlegible, LibroSinCorte, LibroSinValor}
    \cup LibrosOtraGrafia
    \cup {LibroDeFilas(<<r>>) : r \in FilasActa}
    \cup {LibroDeFilas(<<r, r2>>) : r \in FilasActa, r2 \in FilasSegunda}

\* the state at the first call of revisar_acta in a run over the folder
\* julio2025, which holds the certificate alone or after another one
InitActa ==
    /\ InitGlobales
    /\ entrada = ""
    /\ funcion = ""
    /\ salida = None
    /\ listado = <<"julio2025">>
    /\ carpetas \in {("julio2025" :> <<"acta.xlsx">>),
                     ("julio2025" :> <<"previa.xlsx", "acta.xlsx">>)}
    /\ \E wb \in LibrosActa :
          libros = ("acta.xlsx" :> wb) @@ ("previa.xlsx" :> LibroDeFilas(<<FilaMarcada>>))
    /\ valores_referencia = ValoresReferencia
    /\ base_general = None
    /\ resumen_mes = [c \in DOMAIN carpetas |-> None]
    /\ resumen_global = None
    /\ salidas = {}
    /\ cuadro = None
    /\ pc = "archivos"
    /\ \E b \in {"normal", "critico"}, m \in BOOLEAN :
          /\ (b = "critico") => m
          /\ backend = b
          /\ modo_critico = m
    /\ nombre_carpeta_mes = "julio2025"
    /\ anio_actual = parsear_anio_mes_desde_carpeta("julio2025")[1]
    /\ mes_nombre = parsear_anio_mes_desde_carpeta("julio2025")[2]
    /\ idx = 1
    /\ base_registro = <<>>
    /\ base_cantidades = <<>>
    /\ df_combinado = <<>>
    /\ hoja_corte = None
    /\ nombre_contratista = CeldaNone
    /\ columnas = <<>>
    /\ col_valor = None
    /\ fila = 0
    /\ totales_cant = TotalesCero
    /\ rama = ""
    /\ corridas = 1
    /\ previa = None
    /\ revisadas = <<>>
    /\ InitBD
    /\ SinLote

SpecActa == InitActa /\ [][NextActa]_vars

(***************************************************************************)
(* Pure functions applied to bounded inputs                                *)
(***************************************************************************)
MaxFragmentos == 3

RECURSIVE Concatenaciones(_, _)
Concatenaciones(F, n) ==
    IF n = 0 THEN {""}
    ELSE LET prev == Concatenaciones(F, n - 1)
         IN prev \cup {p \o f : p \in prev, f \in F}

FragmentosFamilia == {"estamp", "mr", "excav", "rellen", "re", "4", " "}

FragmentosCriticos ==
    {"base granular", "sub", "excavacion mecanica", "estabilizacion con rajon",
     "estabilizacion con rcd", "estabilizacion de subrasante", "x", " "}

\* normalised descriptions, as revisar_acta hands them to the two functions
DescripcionesFamilia == {normalizar(t) : t \in Concatenaciones(FragmentosFamilia, MaxFragmentos)}
DescripcionesCriticas == {normalizar(t) : t \in Concatenaciones(FragmentosCriticos, MaxFragmentos)}

InitFn ==
    /\ InitGlobales
    /\ entrada \in DescripcionesFamilia \cup DescripcionesCriticas
    /\ funcion = ""
    /\ salida = None
    /\ InitProyecto
    /\ InitReposo

Llamar_clasificar_familia ==
    /\ funcion = ""
    /\ funcion' = "_clasificar_familia"
    /\ salida' = _clasificar_familia(entrada)
    /\ UNCHANGED <<entrada, varsGlobales, varsBD, varsLote, varsEntradas, varsArchivos, varsCorrida, varsActa,
                   varsHistoria>>

Llamar_clasificar_familia_cr ==
    /\ funcion = ""
    /\ funcion' = "_clasificar_familia_cr"
    /\ salida' = _clasificar_familia_cr(upper(entrada))
    /\ UNCHANGED <<entrada, varsGlobales, varsBD, varsLote, varsEntradas, varsArchivos, varsCorrida, varsActa,
                   varsHistoria>>

Llamar_buscar_critico ==
    /\ funcion = ""
    /\ funcion' = "_buscar_critico"
    /\ salida' = _buscar_critico(entrada)
    /\ UNCHANGED <<entrada, varsGlobales, varsBD, varsLote, varsEntradas, varsArchivos, varsCorrida, varsActa,
                   varsHistoria>>

Llamar_buscar_critico_cr ==
    /\ funcion = ""
    /\ funcion' = "_buscar_critico_cr"
    /\ salida' = _buscar_critico_cr(upper(entrada))
    /\ UNCHANGED <<entrada, varsGlobales, varsBD, varsLote, varsEntradas, varsArchivos, varsCorrida, varsActa,
                   varsHistoria>>

NextFn ==
    \/ Llamar_clasificar_familia
    \/ Llamar_clasificar_familia_cr
    \/ Llamar_buscar_critico
    \/ Llamar_buscar_critico_cr

SpecFn == InitFn /\ [][NextFn]_vars

(***************************************************************************)
(* SpecNorm: the normalisation functions applied to raw cell texts, once   *)
(* and then again to their own result                                      *)
(***************************************************************************)
MaxLargoTexto == 3

\* lower and upper case, a digit, accented letters, punctuation, whitespace
AlfabetoCrudo == {"a", "Ñ", "é", "7", ".", " "}

RECURSIVE Textos(_, _)
Textos(A, n) ==
    IF n = 0 THEN {""}
    ELSE LET prev == Textos(A, n - 1)
         IN prev \cup {p \o c : p \in prev, c \in A}

TextosCrudos == Textos(AlfabetoCrudo, MaxLargoTexto)

EtiquetasUnidad ==
    {"m³", "M3", "m3", "M^3", "m^3", "M²", "m²", "m^2", "M2", "und", "UND", "Unid",
     "UNIDAD", "u", "U", "ml", "ML", "m.l", "M.L", " m3 ", "m 3", "un d", "UN", "kg",
     "GL", "M"}

InitNorm ==
    /\ InitGlobales
    /\ entrada \in {None} \cup {Algo(t) : t \in TextosCrudos \cup EtiquetasUnidad}
    /\ funcion = ""
    /\ salida = None
    /\ InitProyecto
    /\ InitReposo

Llamar_normalizar ==
    /\ funcion = ""
    /\ funcion' = "normalizar"
    /\ salida' = normalizar_opcional(entrada)
    /\ UNCHANGED <<entrada, varsGlobales, varsBD, varsLote, varsEntradas, varsArchivos, varsCorrida, varsActa,
                   varsHistoria>>

\* normalizar applied to the result of normalizar
Llamar_normalizar_otra_vez ==
    /\ funcion = "normalizar"
    /\ funcion' = "normalizar(normalizar)"
    /\ salida' = normalizar_opcional(salida)
    /\ UNCHANGED <<entrada, varsGlobales, varsBD, varsLote, varsEntradas, varsArchivos, varsCorrida, varsActa,
                   varsHistoria>>

Llamar_normalizar_cr ==
    /\ funcion = ""
    /\ funcion' = "normalizar_cr"
    /\ salida' = normalizar_cr_opcional(entrada)
    /\ UNCHANGED <<entrada, varsGlobales, varsBD, varsLote, varsEntradas, varsArchivos, varsCorrida, varsActa,
                   varsHistoria>>

Llamar_normalizar_cr_otra_vez ==
    /\ funcion = "normalizar_cr"
    /\ funcion' = "normalizar_cr(normalizar_cr)"
    /\ salida' = normalizar_cr_opcional(salida)
    /\ UNCHANGED <<entrada, varsGlobales, varsBD, varsLote, varsEntradas, varsArchivos, varsCorrida, varsActa,
                   varsHistoria>>

Llamar_normalizar_unidad ==
    /\ funcion = ""
    /\ funcion' = "normalizar_unidad"
    /\ salida' = Algo(normalizar_unidad(entrada))
    /\ UNCHANGED <<entrada, varsGlobales, varsBD, varsLote, varsEntradas, varsArchivos, varsCorrida, varsActa,
                   varsHistoria>>

NextNorm ==
    \/ Llamar_normalizar
    \/ Llamar_normalizar_otra_vez
    \/ Llamar_normalizar_cr
    \/ Llamar_normalizar_cr_otra_vez
    \/ Llamar_normalizar_unidad

SpecNorm == InitNorm /\ [][NextNorm]_vars

(***************************************************************************)
(* bd_precios.py: the price table.  A DataFrame handed to upsert_precios   *)
(* is a sequence of rows [actividad : str, precio : cell,                  *)
(* unidad : None or Algo(str)].                                            *)
(***************************************************************************)
MaxLote == 2
MaxLlamadas == 3

\* the seconds the clock passes through while the calls are made
MaxReloj == 1

\* pd.to_numeric(x, errors="coerce")
to_numeric(c) ==
    IF c.t = "num" THEN Num(c.n)
    ELSE IF c.t = "str" /\ ~EsNone(py_float_str(c.s)) THEN Val(py_float_str(c.s))
    ELSE NaN

\* df.drop_duplicates(subset=["actividad"], keep="last")
drop_duplicates_ultimo(df) ==
    LET n == Len(df)
        queda(i) == \A j \in (i + 1)..n : df[j].actividad # df[i].actividad
        RECURSIVE desde(_)
        desde(i) == IF i > n THEN <<>>
                    ELSE (IF queda(i) THEN <<df[i]>> ELSE <<>>) \o desde(i + 1)
    IN desde(1)

\* _normalizar_df_precios: [error, filas]; error stands for the ValueError
\* raised when a price is not numeric
_normalizar_df_precios(df) ==
    LET limpio == [i \in 1..Len(df) |-> [df[i] EXCEPT !.actividad = strip(@)]]
        con_actividad == SelectSeq(limpio, LAMBDA r : r.actividad # "")
        numerico == [i \in 1..Len(con_actividad) |->
                        [actividad |-> con_actividad[i].actividad,
                         precio |-> to_numeric(con_actividad[i].precio),
                         unidad |-> IF EsNone(con_actividad[i].unidad) THEN None
                                    ELSE Algo(strip(Val(con_actividad[i].unidad)))]]
    IN IF df = <<>> THEN [error |-> FALSE, filas |-> <<>>]
       ELSE IF \E i \in 1..Len(numerico) : numerico[i].precio.nan
            THEN [error |-> TRUE, filas |-> <<>>]
       ELSE [error |-> FALSE, filas |-> drop_duplicates_ultimo(numerico)]

\* the row of table precios with the key, if any
fila_de(tabla, actividad) ==
    IF \E i \in 1..Len(tabla) : tabla[i].actividad = actividad
    THEN Algo(tabla[CHOOSE i \in 1..Len(tabla) : tabla[i].actividad = actividad])
    ELSE None

\* an INSERT that does not look at the key
insertar_sin_conflicto(tabla, r, now) ==
    Append(tabla, [actividad |-> r.actividad, precio |-> r.precio,
                   unidad |-> r.unidad, updated_at |-> now])

\* INSERT ... ON CONFLICT(actividad) DO UPDATE for one row
insertar_o_actualizar(tabla, r, now) ==
    LET nueva == [actividad |-> r.actividad, precio |-> r.precio,
                  unidad |-> r.unidad, updated_at |-> now]
    IN IF EsNone(fila_de(tabla, r.actividad)) THEN Append(tabla, nueva)
       ELSE [i \in 1..Len(tabla) |->
                IF tabla[i].actividad = r.actividad THEN nueva ELSE tabla[i]]

\* executemany over the rows
RECURSIVE executemany_upsert(_, _, _)
executemany_upsert(tabla, filas, now) ==
    IF filas = <<>> THEN tabla
    ELSE executemany_upsert(insertar_o_actualizar(tabla, Head(filas), now), Tail(filas), now)

\* x or None, for an optional str
o_None(u) == IF EsNone(u) \/ Val(u) = "" THEN None ELSE u

\* the rows upsert_precios appends to precios_log
filas_de_auditoria(tabla_previa, filas, now) ==
    LET entrada_de(r) ==
            LET prev == fila_de(tabla_previa, r.actividad)
                precio_old == IF EsNone(prev) THEN None ELSE Algo(Val(prev).precio)
                unidad_old == IF EsNone(prev) THEN None ELSE Val(prev).unidad
            IN [changed |-> \/ EsNone(precio_old)
                            \/ Val(precio_old) # r.precio
                            \/ o_None(unidad_old) # o_None(r.unidad),
                fila |-> [actividad |-> r.actividad, precio_old |-> precio_old,
                          precio_new |-> Algo(r.precio), unidad_old |-> unidad_old,
                          unidad_new |-> r.unidad, changed_at |-> now]]
        todas == [i \in 1..Len(filas) |-> entrada_de(filas[i])]
        cambiadas == SelectSeq(todas, LAMBDA e : e.changed)
    IN [i \in 1..Len(cambiadas) |-> cambiadas[i].fila]

\* upsert_precios(db_path, df, log_changes=True): the two tables after the
\* call and whether it raised
upsert_precios(tabla, log, df, now) ==
    LET df2 == _normalizar_df_precios(df)
    IN IF df2.error THEN [error |-> TRUE, precios |-> tabla, precios_log |-> log]
       ELSE [error |-> FALSE,
             precios |-> executemany_upsert(tabla, df2.filas, now),
             precios_log |-> log \o filas_de_auditoria(tabla, df2.filas, now)]

\* eliminar_actividad(db_path, actividad, log_delete=True)
eliminar_actividad(tabla, log, actividad, now) ==
    LET clave == strip(actividad)
        prev == fila_de(tabla, clave)
    IN IF clave = "" THEN [precios |-> tabla, precios_log |-> log]
       ELSE [precios |-> SelectSeq(tabla, LAMBDA r : r.actividad # clave),
             precios_log |->
                 IF EsNone(prev) THEN log
                 ELSE Append(log, [actividad |-> clave,
                                   precio_old |-> Algo(Val(prev).precio),
                                   precio_new |-> None,
                                   unidad_old |-> Val(prev).unidad,
                                   unidad_new |-> None, changed_at |-> now])]

\* rows of the DataFrames handed over: keys with and without surrounding
\* blanks, numeric and non-numeric prices, units with blanks or missing
ActividadesCrudas == {"a", " a ", "b", " "}

FilasDePrecios ==
    {[actividad |-> "a", precio |-> CeldaNum(1), unidad |-> None],
     [actividad |-> " a ", precio |-> CeldaNum(2), unidad |-> Algo(" M3")],
     [actividad |-> "b", precio |-> CeldaStr("1"), unidad |-> Algo(" M3")],
     [actividad |-> "b", precio |-> CeldaStr("x"), unidad |-> None]}

\* the rows handed to actualizar_precio: those and one with a blank key
FilasSueltas ==
    FilasDePrecios \cup {[actividad |-> " ", precio |-> CeldaStr("x"), unidad |-> None]}

RECURSIVE Lotes(_)
Lotes(n) ==
    IF n = 0 THEN {<<>>}
    ELSE LET prev == Lotes(n - 1)
         IN prev \cup {Append(l, r) : l \in prev, r \in FilasDePrecios}

\* the DataFrames handed to upsert_precios: up to MaxLote rows
LotesDePrecios == Lotes(MaxLote)

\* the history after an upsert that was carried out: every key the batch
\* names takes the price and unit of the last row that names it
ultimo_tras_upsert(df) ==
    [k \in ClavesActividad |->
        LET nombran == {i \in 1..Len(df) : strip(df[i].actividad) = k}
            i == CHOOSE x \in nombran : \A y \in nombran : y <= x
        IN IF nombran = {} THEN ultimo_upsert[k]
           ELSE Algo([precio |-> to_numeric(df[i].precio),
                      unidad |-> IF EsNone(df[i].unidad) THEN None
                                 ELSE Algo(strip(Val(df[i].unidad)))])]

InitPrecios ==
    /\ InitGlobales
    /\ entrada = <<>>
    /\ funcion = ""
    /\ salida = None
    /\ listado = <<>>
    /\ carpetas = <<>>
    /\ libros = <<>>
    /\ valores_referencia = <<>>
    /\ InitReposo

\* SELECT actividad, precio, unidad FROM precios WHERE actividad IN (...)
\* (upsert_precios line 201) and SELECT ... WHERE actividad = ? (line 275)
seleccionar_previos(tabla, claves) == SelectSeq(tabla, LAMBDA r : r.actividad \in claves)

claves_de(filas) == {filas[i].actividad : i \in 1..Len(filas)}

\* a call between its SELECT and its commit: what it was given, the rows
\* or the key it will write, the time it read before connecting, and the
\* previous values it read
LlamadaEnVuelo(f, dada, filas, clave, now, prev) ==
    [funcion |-> f, entrada |-> dada, filas |-> filas, clave |-> clave,
     now |-> now, prev |-> prev, fase |-> "leido"]

SinLaLlamada(i) == SubSeq(en_vuelo, 1, i - 1) \o SubSeq(en_vuelo, i + 1, Len(en_vuelo))

\* upsert_precios up to its SELECT (lines 185-208): the batch is
\* normalised, which may raise; an empty batch returns; otherwise the clock
\* is read, the database opened and the previous values read. The SELECT
\* runs outside any transaction, so other calls may commit before this one
\* writes. The time read may be older than the clock at the SELECT.
comenzar_upsert(f, df) ==
    LET df2 == _normalizar_df_precios(df)
    IN /\ entrada' = df
       /\ funcion' = f
       /\ salida' = IF df2.error THEN Algo("ValueError") ELSE None
       /\ llamadas' = llamadas + 1
       /\ IF df2.error \/ df2.filas = <<>>
          THEN UNCHANGED <<reloj, en_vuelo>>
          ELSE \E t \in {reloj, reloj + 1} \cap 0..MaxReloj : \E now \in 0..t :
                 /\ reloj' = t
                 /\ en_vuelo' = Append(en_vuelo,
                        LlamadaEnVuelo(f, df, df2.filas, "", now,
                            seleccionar_previos(precios, claves_de(df2.filas))))
       /\ UNCHANGED <<precios, precios_log, ultimo_upsert>>

Llamar_upsert_precios ==
    /\ llamadas < MaxLlamadas
    /\ \E df \in LotesDePrecios : comenzar_upsert("upsert_precios", df)
    /\ UNCHANGED <<varsGlobales, varsLote, varsEntradas, varsArchivos, varsCorrida, varsActa,
                   varsHistoria>>

\* actualizar_precio(db_path, actividad, precio, unidad=None): an upsert of
\* one row
Llamar_actualizar_precio ==
    /\ llamadas < MaxLlamadas
    /\ \E r \in FilasSueltas : comenzar_upsert("actualizar_precio", <<r>>)
    /\ UNCHANGED <<varsGlobales, varsLote, varsEntradas, varsArchivos, varsCorrida, varsActa,
                   varsHistoria>>

\* eliminar_actividad up to its SELECT (lines 267-276); a blank key returns
Llamar_eliminar_actividad ==
    /\ llamadas < MaxLlamadas
    /\ \E a \in ActividadesCrudas :
         /\ entrada' = a
         /\ funcion' = "eliminar_actividad"
         /\ salida' = None
         /\ IF strip(a) = ""
            THEN UNCHANGED <<reloj, en_vuelo>>
            ELSE \E t \in {reloj, reloj + 1} \cap 0..MaxReloj : \E now \in 0..t :
                   /\ reloj' = t
                   /\ en_vuelo' = Append(en_vuelo,
                          LlamadaEnVuelo("eliminar_actividad", a, <<>>, strip(a), now,
                              seleccionar_previos(precios, {strip(a)})))
    /\ llamadas' = llamadas + 1
    /\ UNCHANGED <<precios, precios_log, ultimo_upsert>>
    /\ UNCHANGED <<varsGlobales, varsLote, varsEntradas, varsArchivos, varsCorrida, varsActa,
                   varsHistoria>>

\* a connection holds the write lock of the database
HayBloqueo == \E i \in 1..Len(en_vuelo) : en_vuelo[i].fase = "escribiendo"

\* the first writing statement of a call (INSERT of line 212; INSERT of
\* line 279 or DELETE of line 287) opens its transaction and takes the
\* write lock
Escribir ==
    /\ ~HayBloqueo
    /\ \E i \in 1..Len(en_vuelo) :
         /\ en_vuelo[i].fase = "leido"
         /\ en_vuelo' = [en_vuelo EXCEPT ![i].fase = "escribiendo"]
    /\ UNCHANGED <<precios, precios_log, reloj, llamadas, ultimo_upsert>>
    /\ UNCHANGED <<varsGlobales, varsLote, varsFn, varsEntradas, varsArchivos, varsCorrida,
                   varsActa, varsHistoria>>

\* the lock is not released within the timeout of the connection: the
\* writing statement raises sqlite3.OperationalError, the connection is
\* closed and the call has written nothing
FallarPorBloqueo ==
    /\ HayBloqueo
    /\ \E i \in 1..Len(en_vuelo) :
         /\ en_vuelo[i].fase = "leido"
         /\ entrada' = en_vuelo[i].entrada
         /\ funcion' = en_vuelo[i].funcion
         /\ en_vuelo' = SinLaLlamada(i)
    /\ salida' = Algo("OperationalError")
    /\ UNCHANGED <<precios, precios_log, reloj, llamadas, ultimo_upsert>>
    /\ UNCHANGED <<varsGlobales, varsLote, varsEntradas, varsArchivos, varsCorrida,
                   varsActa, varsHistoria>>

\* the tables after the writes of a call in flight: the rows are upserted
\* on the table as it stands, the audit rows carry the previous values the
\* call read at its SELECT
tras_escribir(tabla, log, c) ==
    IF c.funcion = "eliminar_actividad"
    THEN [precios |-> SelectSeq(tabla, LAMBDA r : r.actividad # c.clave),
          precios_log |->
              IF c.prev = <<>> THEN log
              ELSE Append(log, [actividad |-> c.clave,
                                precio_old |-> Algo(c.prev[1].precio),
                                precio_new |-> None,
                                unidad_old |-> c.prev[1].unidad,
                                unidad_new |-> None, changed_at |-> c.now])]
    ELSE [precios |-> executemany_upsert(tabla, c.filas, c.now),
          precios_log |-> log \o filas_de_auditoria(c.prev, c.filas, c.now)]

\* con.commit() (lines 247 and 288): the writes of the call become the
\* tables, and the call returns
Confirmar ==
    \E i \in 1..Len(en_vuelo) :
        LET c == en_vuelo[i]
            res == tras_escribir(precios, precios_log, c)
        IN /\ c.fase = "escribiendo"
           /\ precios' = res.precios
           /\ precios_log' = res.precios_log
           /\ ultimo_upsert' =
                  IF c.funcion = "eliminar_actividad"
                  THEN [k \in ClavesActividad |->
                           IF k = c.clave THEN None ELSE ultimo_upsert[k]]
                  ELSE ultimo_tras_upsert(c.entrada)
           /\ entrada' = c.entrada
           /\ funcion' = c.funcion
           /\ salida' = None
           /\ en_vuelo' = SinLaLlamada(i)
           /\ UNCHANGED <<reloj, llamadas>>
           /\ UNCHANGED <<varsGlobales, varsLote, varsEntradas, varsArchivos, varsCorrida,
                          varsActa, varsHistoria>>

NextPrecios ==
    \/ Llamar_upsert_precios
    \/ Llamar_actualizar_precio
    \/ Llamar_eliminar_actividad
    \/ Escribir
    \/ FallarPorBloqueo
    \/ Confirmar

SpecPrecios == InitPrecios /\ [][NextPrecios]_vars

(***************************************************************************)
(* control_actas_local.py: the loader of the reference prices that         *)
(* get_backend hands to its caller, and a run that is given its result.    *)
(* A str key of a Python dict is kept as the 1-tuple <<key>>, so that it   *)
(* differs from every (desc_norm, unidad) tuple, as it does in Python.     *)
(***************************************************************************)
\* the loop shared by the loaders: out[str(a).strip()] = float(v)
RECURSIVE dict_por_actividad(_, _)
dict_por_actividad(filas, out) ==
    IF filas = <<>> THEN out
    ELSE LET a == strip(Head(filas).actividad)
         IN dict_por_actividad(Tail(filas),
                IF a = "" THEN out ELSE DictSet(out, <<a>>, Head(filas).precio))

\* the characters of the model's texts in the order of their code points,
\* which is the order of SQLite's BINARY collation
OrdenBinario ==
    " $,-./" \o Digitos \o Mayusculas \o "_" \o Minusculas \o "²³ÁÉÍÑÓÚáéíñóú"

\* a < b for two TEXT values under ORDER BY
RECURSIVE MenorBinario(_, _)
MenorBinario(a, b) ==
    IF a = "" THEN b # ""
    ELSE IF b = "" THEN FALSE
    ELSE IF Ch(a, 1) = Ch(b, 1)
         THEN MenorBinario(SubSeq(a, 2, Len(a)), SubSeq(b, 2, Len(b)))
         ELSE Pos(Ch(a, 1), OrdenBinario) < Pos(Ch(b, 1), OrdenBinario)

\* bd_precios.leer_precios of control_normal (lines 77-85): the rows of the
\* table precios, ORDER BY actividad
RECURSIVE leer_precios(_)
leer_precios(tabla) ==
    IF tabla = <<>> THEN <<>>
    ELSE LET resto == leer_precios(SubSeq(tabla, 1, Len(tabla) - 1))
             m == tabla[Len(tabla)]
             k == Cardinality({i \in 1..Len(resto) :
                                  ~MenorBinario(m.actividad, resto[i].actividad)})
         IN SubSeq(resto, 1, k) \o <<m>> \o SubSeq(resto, k + 1, Len(resto))

\* _from_leer (lines 175-191), built on bd_precios.leer_precios of
\* control_normal, which has no cargar_valores_referencia
_from_leer(tabla) == dict_por_actividad(leer_precios(tabla), <<>>)

\* _fallback_cargar_valores_referencia (lines 80-145) on a database whose
\* table precios has the columns actividad and precio
_fallback_cargar_valores_referencia(tabla) == dict_por_actividad(tabla, <<>>)

\* _resolver_cargar_valores_referencia for control_normal: the submodule
\* bd_precios is imported and gives _from_leer, or the import raises and the
\* fallback is returned
_resolver_cargar_valores_referencia(importa_bd_precios) ==
    IF importa_bd_precios THEN "_from_leer" ELSE "_fallback_cargar_valores_referencia"

\* the dict the resolved loader returns for the database
cargar_valores_referencia(cargador, tabla) ==
    IF cargador = "_from_leer" THEN _from_leer(tabla)
    ELSE _fallback_cargar_valores_referencia(tabla)

\* rows given to upsert_precios to fill the price database: activities
\* written as normalized descriptions and as they stand in a certificate
FilaDeReferencia(actividad, precio, unidad) ==
    [actividad |-> actividad, precio |-> CeldaNum(precio), unidad |-> unidad]

\* the batches: one activity, or two given in an order that is not that of
\* their keys
LotesDeReferencia ==
    {<<FilaDeReferencia("excavacion mecanica", 1000, Algo("M3"))>>,
     <<FilaDeReferencia("relleno", 500, Algo("UN"))>>,
     <<FilaDeReferencia("base granular", 1000, None)>>,
     <<FilaDeReferencia("excavacion mecanica", 1000, Algo("M3")),
       FilaDeReferencia("Excavación mecánica", 1000, Algo("m³"))>>,
     <<FilaDeReferencia("relleno", 500, Algo("UN")),
       FilaDeReferencia("base granular", 1000, None)>>}

\* the price database is filled by one upsert_precios, the only writing
\* call made on it: the loader reads the table as it is before or after
\* the commit of the call
PoblarPrecios ==
    /\ pc = "reposo"
    /\ corridas = 0
    /\ llamadas = 0
    /\ \E df \in LotesDeReferencia, now \in {reloj, reloj + 1} \cap 0..MaxReloj :
         LET r == upsert_precios(precios, precios_log, df, now)
         IN /\ precios' = r.precios
            /\ precios_log' = r.precios_log
            /\ reloj' = now
    /\ llamadas' = llamadas + 1
    /\ UNCHANGED <<varsGlobales, varsLote, varsFn, varsEntradas, varsArchivos, varsCorrida,
                   varsActa, varsHistoria, en_vuelo, ultimo_upsert>>

\* get_backend("normal")["cargar_valores_referencia"](db_path): the loader
\* that _resolver_cargar_valores_referencia returns is applied to the price
\* database; its dict is what the caller hands to correr_todo
Llamar_cargar_valores_referencia ==
    /\ pc = "reposo"
    /\ corridas = 0
    /\ funcion = ""
    /\ \E importa \in BOOLEAN :
         /\ funcion' = _resolver_cargar_valores_referencia(importa)
         /\ valores_referencia' = cargar_valores_referencia(funcion', precios)
    /\ UNCHANGED <<varsGlobales, varsBD, varsLote, entrada, salida, carpetas, libros,
                   varsArchivos, varsCorrida, varsActa, varsHistoria>>

NextCarga ==
    \/ PoblarPrecios
    \/ Llamar_cargar_valores_referencia
    \/ IniciarCorrerTodo
    \/ OmitirArchivo
    \/ AbrirActa
    \/ RevisarFila
    \/ CerrarActa
    \/ FallarGuardar
    \/ EscribirBaseGeneral
    \/ EscribirResumenMes
    \/ EscribirResumenGlobal
    \/ FallarBaseGeneral
    \/ FallarResumenMes
    \/ FallarResumenGlobal
    \/ Retornar

\* a project with one folder, which holds a text file and one certificate
\* of one row; the price
\* database has just been created and no reference price is loaded
InitCarga ==
    /\ InitGlobales
    /\ entrada = ""
    /\ funcion = ""
    /\ salida = None
    /\ listado = <<"julio2025">>
    /\ carpetas = ("julio2025" :> <<"notas.txt", "acta.xlsx">>)
    /\ \E r \in {FilaActa(CeldaStr("1.1"), CeldaStr(d), u, CeldaNum(1500), CeldaNum(7)) :
                      d \in DescripcionesActa, u \in {CeldaStr("m³"), CeldaStr("und")}} :
          libros = ("acta.xlsx" :> LibroDeFilas(<<r>>))
    /\ valores_referencia = <<>>
    /\ InitReposo

SpecCarga == InitCarga /\ [][NextCarga]_vars

(***************************************************************************)
(* Properties of the pure functions (checked under SpecFn)                 *)
(***************************************************************************)
\* some word of s begins with the stem
PalabraEmpiezaCon(s, raiz) ==
    \E i \in 1..(Len(s) - Len(raiz) + 1) :
        /\ SubSeq(s, i, i + Len(raiz) - 1) = raiz
        /\ (i = 1 \/ Ch(s, i - 1) = " ")

\* C6 as stated: the category of the first rule that matches, the stems
\* ESTAMP, EXCAV and RELLEN matching anywhere in the description.
C6_SubcadenaEnCualquierParte ==
    /\ (funcion = "_clasificar_familia") =>
          salida = IF Contiene(entrada, "estamp") THEN Algo("CONCRETO_ESTAMPADO")
                   ELSE IF BuscaPalabra(entrada, "mr") THEN Algo("CONCRETO_MR")
                   ELSE IF Contiene(entrada, "excav") THEN Algo("EXCAVACIONES")
                   ELSE IF Contiene(entrada, "rellen") THEN Algo("RELLENOS")
                   ELSE None
    /\ (funcion = "_clasificar_familia_cr") =>
          salida = IF Contiene(upper(entrada), "ESTAMP") THEN Algo("CONCRETO_ESTAMPADO")
                   ELSE IF BuscaPalabra(upper(entrada), "MR") THEN Algo("CONCRETO_MR")
                   ELSE IF Contiene(upper(entrada), "EXCAV") THEN Algo("EXCAVACIONES")
                   ELSE IF Contiene(upper(entrada), "RELLEN") THEN Algo("RELLENOS")
                   ELSE None

\* C6 amended: _clasificar_familia returns the category of the first rule
\* that matches in the fixed order ESTAMP, MR (whole word), EXCAV, RELLEN,
\* else None, where the stems ESTAMP, EXCAV and RELLEN match only at the
\* start of a word of the description.
C6_PrimeraReglaAlInicioDePalabra ==
    /\ (funcion = "_clasificar_familia") =>
          salida = IF PalabraEmpiezaCon(entrada, "estamp") THEN Algo("CONCRETO_ESTAMPADO")
                   ELSE IF BuscaPalabra(entrada, "mr") THEN Algo("CONCRETO_MR")
                   ELSE IF PalabraEmpiezaCon(entrada, "excav") THEN Algo("EXCAVACIONES")
                   ELSE IF PalabraEmpiezaCon(entrada, "rellen") THEN Algo("RELLENOS")
                   ELSE None
    /\ (funcion = "_clasificar_familia_cr") =>
          salida = IF PalabraEmpiezaCon(upper(entrada), "ESTAMP") THEN Algo("CONCRETO_ESTAMPADO")
                   ELSE IF BuscaPalabra(upper(entrada), "MR") THEN Algo("CONCRETO_MR")
                   ELSE IF PalabraEmpiezaCon(upper(entrada), "EXCAV") THEN Algo("EXCAVACIONES")
                   ELSE IF PalabraEmpiezaCon(upper(entrada), "RELLEN") THEN Algo("RELLENOS")
                   ELSE None

\* a description holding EXCAV inside a word and RELLEN at the start of a
\* later word has been classified, and the later rule decided
C6_Testigo ==
    /\ funcion = "_clasificar_familia"
    /\ Contiene(entrada, "excav") /\ ~PalabraEmpiezaCon(entrada, "excav")
    /\ PalabraEmpiezaCon(entrada, "rellen")
    /\ salida = Algo("RELLENOS")

\* the keywords of a table (sequence of <<key, price>>) contained in d
Aciertos(tabla, d) == {i \in 1..Len(tabla) : Contiene(d, tabla[i][1])}

EsElMasLargo(tabla, d, res) ==
    IF Aciertos(tabla, d) = {} THEN res = <<None, None>>
    ELSE \E i \in Aciertos(tabla, d) :
            /\ \A j \in Aciertos(tabla, d) : Len(tabla[j][1]) <= Len(tabla[i][1])
            /\ res = <<Algo(tabla[i][1]), Algo(tabla[i][2])>>

\* C7: _buscar_critico returns the key and price of the longest keyword of
\* the critical table contained in the description, and (None, None) when
\* no keyword is contained.
C7_GanaLaClaveMasLarga ==
    /\ (funcion = "_buscar_critico") => EsElMasLargo(CRIT_MAP, entrada, salida)
    /\ (funcion = "_buscar_critico_cr") =>
          EsElMasLargo(CRITICOS_NORM, upper(entrada), salida)

\* a description containing a keyword and a shorter keyword contained in it
\* has been looked up, and the longer keyword was returned
C7_Testigo ==
    /\ funcion = "_buscar_critico"
    /\ Contiene(entrada, "subbase granular")
    /\ Cardinality(Aciertos(CRIT_MAP, entrada)) >= 2
    /\ salida = <<Algo("subbase granular"), Algo(Num(1000))>>

(***************************************************************************)
(* Properties of revisar_acta (checked under SpecActa)                     *)
(***************************************************************************)
\* the cells of sheet row f as revisar_acta reads them, from the input alone
FilaItem(f) == TextoOVacio(celda(HojaActual, DictGetDef(columnas, "ÍTEM", "A"), f))
FilaDesc(f) == celda(HojaActual, DictGetDef(columnas, "DESCRIPCIÓN", "B"), f)
FilaUn(f) ==
    celda(HojaActual, DictGetDef(columnas, "UN", IF backend = "critico" THEN "C" ELSE "D"), f)
FilaValor(f) == celda(HojaActual, Val(col_valor), f)
FilaCantidad(f) == celda(HojaActual, IF backend = "critico" THEN "G" ELSE "I", f)

DescNormalizada(f) ==
    IF backend = "critico" THEN normalizar_cr(strip(py_str(FilaDesc(f))))
    ELSE normalizar(strip(py_str(FilaDesc(f))))

UnidadNormalizada(f) == normalizar_unidad(CeldaComoTexto(FilaUn(f)))

\* a labor line
EsManoDeObra(f) ==
    IF backend = "critico"
    THEN Contiene(DescNormalizada(f), "MANO DE OBRA") \/ Contiene(DescNormalizada(f), "PEA")
    ELSE \/ Contiene(upper(strip(py_str(FilaDesc(f)))), "MANO DE OBRA")
         \/ Contiene(upper(FilaItem(f)), "MR45")
         \/ Contiene(upper(strip(py_str(FilaDesc(f)))), "PEA")

\* the declared unit price: None when the cell is empty or not numeric
PrecioDeclarado(f) ==
    IF FilaValor(f).t = "none" THEN None
    ELSE py_float_str(replace(replace(py_str(FilaValor(f)), "$", ""), ",", ""))

CantidadDeclarada(f) == py_float(FilaCantidad(f))

CantidadValida(f) ==
    /\ ~EsNone(CantidadDeclarada(f))
    /\ ~Val(CantidadDeclarada(f)).nan
    /\ Val(CantidadDeclarada(f)).n # 0

\* the row is a line item: it has an item code and a description and is
\* not a labor line
EsPartida(f) == FilaItem(f) # "" /\ py_bool(FilaDesc(f)) /\ ~EsManoDeObra(f)

\* the line item passed parsing: declared price and quantity are usable
PasoElAnalisis(f) == EsPartida(f) /\ ~EsNone(PrecioDeclarado(f)) /\ CantidadValida(f)

\* the reference price resolved for the row under the mode of the run
ReferenciaResuelta(f) ==
    IF backend = "critico" THEN _buscar_critico_cr(DescNormalizada(f))[2]
    ELSE IF modo_critico THEN _buscar_critico(DescNormalizada(f))[2]
    ELSE IF UnidadNormalizada(f) = "" THEN None
    ELSE DictGet(valores_referencia, <<DescNormalizada(f), UnidadNormalizada(f)>>)

\* revisar_acta is about to read sheet row `fila`
LeyendoFila == pc = "filas" /\ fila <= max_row(HojaActual)

\* exactly one record was appended
UnRegistroMas ==
    /\ Len(base_registro') = Len(base_registro) + 1
    /\ SubSeq(base_registro', 1, Len(base_registro)) = base_registro

UltimoRegistro == base_registro'[Len(base_registro')]

\* the records the run holds for the certificate being read
RegistrosDe(archivo) == SelectSeq(base_registro, LAMBDA r : r.archivo = archivo)

\* C1: for a line item that passed parsing and has a resolved reference
\* price, a record is appended iff abs(declared - reference) > 1; at a
\* difference of exactly 1 or less (or NaN) none is appended.
C1_RegistroSiiSuperaTolerancia ==
    [][ (LeyendoFila /\ PasoElAnalisis(fila) /\ ~EsNone(ReferenciaResuelta(fila))) =>
          LET v == Val(PrecioDeclarado(fila))
              ref == Val(ReferenciaResuelta(fila))
          IN IF ~v.nan /\ Abs(v.n - ref.n) > 1
             THEN /\ UnRegistroMas
                  /\ UltimoRegistro.valor_unitario_original = v
                  /\ UltimoRegistro.valor_pactado = ref
             ELSE base_registro' = base_registro ]_vars

\* a line item at a difference of exactly 1 was read and left no record
C1_Testigo ==
    /\ pc = "filas"
    /\ fila = 11
    /\ PasoElAnalisis(10)
    /\ ~EsNone(ReferenciaResuelta(10))
    /\ Abs(Val(PrecioDeclarado(10)).n - Val(ReferenciaResuelta(10)).n) = 1
    /\ RegistrosDe("acta.xlsx") = <<>>

\* the reference price of a stored record, resolved again from its
\* description and unit
ReferenciaDelRegistro(r) ==
    IF backend = "critico" THEN _buscar_critico_cr(normalizar_cr(r.descripcion))[2]
    ELSE IF modo_critico THEN _buscar_critico(normalizar(r.descripcion))[2]
    ELSE DictGet(valores_referencia, <<normalizar(r.descripcion), r.un>>)

\* C2: every record of base_registro has valor_ajustado = valor_pactado *
\* cantidad_presenta, valor_pactado being the reference price resolved for
\* the item; the declared price does not enter.
C2_ValorAjustado ==
    \A i \in 1..Len(base_registro) :
        LET r == base_registro[i]
        IN /\ ~EsNone(ReferenciaDelRegistro(r))
           /\ r.valor_pactado = Val(ReferenciaDelRegistro(r))
           /\ ~r.valor_pactado.nan /\ ~r.cantidad_presenta.nan
           /\ r.valor_ajustado = Num(r.valor_pactado.n * r.cantidad_presenta.n)

\* a record whose declared price differs from the reference and whose
\* quantity is not 1
C2_Testigo ==
    \E i \in 1..Len(base_registro) :
        /\ base_registro[i].valor_unitario_original = Num(1002)
        /\ base_registro[i].valor_pactado = Num(1000)
        /\ base_registro[i].cantidad_presenta = Num(7)
        /\ base_registro[i].valor_ajustado = Num(7000)

\* the accumulator of the category the classifier gives to the row, None
\* when it gives none
CategoriaDeFila(f) ==
    LET c == IF backend = "critico" THEN _clasificar_familia_cr(DescNormalizada(f))
             ELSE _clasificar_familia(DescNormalizada(f))
    IN IF EsNone(c) THEN None
       ELSE IF Val(c) = "EXCAVACIONES" THEN Algo("Excavaciones")
       ELSE IF Val(c) = "RELLENOS" THEN Algo("Rellenos")
       ELSE IF Val(c) = "CONCRETO_MR" THEN Algo("Concreto MR")
       ELSE Algo("Concreto estampado")

\* C5: a line item in a quantity category, with a valid non-zero quantity
\* and no resolved reference price, adds its quantity to the total of its
\* category and appends no record.  (In control_normal a line item is a row
\* whose declared price was parsed.)
C5_TotalSinReferencia ==
    [][ (/\ LeyendoFila
         /\ EsPartida(fila)
         /\ (backend = "normal" => ~EsNone(PrecioDeclarado(fila)))
         /\ CantidadValida(fila)
         /\ ~EsNone(CategoriaDeFila(fila))
         /\ EsNone(ReferenciaResuelta(fila))) =>
          /\ totales_cant'[Val(CategoriaDeFila(fila))] =
                 Num(totales_cant[Val(CategoriaDeFila(fila))].n + Val(CantidadDeclarada(fila)).n)
          /\ base_registro' = base_registro ]_vars

\* an excavation item without unit was read in exact mode: 7 units counted,
\* no record
C5_Testigo ==
    /\ pc = "filas"
    /\ fila = 11
    /\ rama = "sin_unidad"
    /\ CategoriaDeFila(10) = Algo("Excavaciones")
    /\ EsNone(ReferenciaResuelta(10))
    /\ totales_cant["Excavaciones"] = Num(7)
    /\ RegistrosDe("acta.xlsx") = <<>>

\* C8: in exact mode a record is appended only for a non-empty normalized
\* unit and a pair (description, unit) that is a key of valores_referencia,
\* with valor_pactado the value under that key; with an empty unit or no
\* such key the row is passed over and the loop goes on.
C8_BusquedaExacta ==
    [][ (LeyendoFila /\ backend = "normal" /\ ~modo_critico) =>
          LET clave == <<DescNormalizada(fila), UnidadNormalizada(fila)>>
          IN /\ (base_registro' # base_registro) =>
                   /\ UnidadNormalizada(fila) # ""
                   /\ DictTiene(valores_referencia, clave)
                   /\ UnRegistroMas
                   /\ UltimoRegistro.valor_pactado = Val(DictGet(valores_referencia, clave))
             /\ (UnidadNormalizada(fila) = "" \/ ~DictTiene(valores_referencia, clave)) =>
                   /\ base_registro' = base_registro
                   /\ pc' = "filas"
                   /\ fila' = fila + 1 ]_vars

\* exact mode: the first row matched the key (relleno, M3) and left a
\* record at 500; the second, without unit, left none
C8_Testigo ==
    /\ pc = "filas"
    /\ fila = 12
    /\ backend = "normal" /\ ~modo_critico
    /\ rama = "sin_unidad"
    /\ UnidadNormalizada(11) = ""
    /\ Len(RegistrosDe("acta.xlsx")) = 1
    /\ RegistrosDe("acta.xlsx")[1].descripcion = "Relleno"
    /\ RegistrosDe("acta.xlsx")[1].un = "M3"
    /\ RegistrosDe("acta.xlsx")[1].valor_pactado = Num(500)

\* the certificate is malformed: it cannot be opened, it has no sheet with
\* an accepted name, or no header of that sheet contains VALOR UNITARIO
SinHojaCorte(wb) == sheetnames(wb) \cap {"CORTE", "Corte", "Corte ", "corte"} = {}

SinEncabezadoValor(ws) ==
    \A i \in 1..ws.max_column :
        ~Contiene(nombre_columna(ws.fila8[i], ws.fila9[i]), "VALOR UNITARIO")

EsMalformada(wb) ==
    \/ ~wb.legible
    \/ SinHojaCorte(wb)
    \/ \A n \in sheetnames(wb) \cap {"CORTE", "Corte", "Corte ", "corte"} :
           SinEncabezadoValor(hoja(wb, n))

\* revisar_acta is about to be called on a malformed certificate
LlamadaConMalformada ==
    /\ pc = "archivos"
    /\ idx <= Len(Archivos)
    /\ endswith(lower(Archivos[idx]), ".xlsx")
    /\ EsMalformada(libros[Archivos[idx]])

\* C10: a call of revisar_acta on a malformed certificate returns with
\* base_registro and base_cantidades as they were and writes no verified
\* workbook: nothing of a malformed certificate is ever in the two lists
\* or in the output folder.
C10_MalformadaSinEfecto ==
    /\ [](\A a \in DOMAIN libros :
             EsMalformada(libros[a]) =>
                /\ \A i \in 1..Len(base_registro) : base_registro[i].archivo # a
                /\ \A i \in 1..Len(base_cantidades) : base_cantidades[i].archivo # a
                /\ \A c \in DOMAIN carpetas : <<c, nombre_salida(a)>> \notin salidas)
    /\ [][ LlamadaConMalformada =>
             /\ pc' = "archivos"
             /\ idx' = idx + 1
             /\ base_registro' = base_registro
             /\ base_cantidades' = base_cantidades
             /\ salidas' = salidas ]_vars

\* a malformed certificate was skipped after another one had left a record,
\* its totals and its verified workbook
C10_Testigo ==
    /\ pc = "archivos"
    /\ idx = 3
    /\ rama \in {"error_al_abrir", "sin_hoja_corte", "sin_columna_valor"}
    /\ EsMalformada(libros["acta.xlsx"])
    /\ revisadas = <<"previa.xlsx", "acta.xlsx">>
    /\ Len(base_registro) = 1
    /\ Len(base_cantidades) = 1
    /\ salidas = {<<"julio2025", "previa_verificado.xlsx">>}

(***************************************************************************)
(* Properties of correr_todo (checked under Spec)                          *)
(***************************************************************************)
\* the call in progress repeats the call that returned last
RepiteLaCorridaPrevia ==
    previa = Algo([carpeta |-> nombre_carpeta_mes, backend |-> backend,
                   modo_critico |-> modo_critico])

\* C3: a second correr_todo in a row for the same folder, on the same
\* certificates and reference prices, leaves base_general.xlsx with the
\* multiset of records the first one left.
C3_SegundaCorridaIdempotente ==
    [][ (pc = "archivos" /\ pc' = "resumen_mes" /\ RepiteLaCorridaPrevia) =>
          MismoMulticonjunto(Val(base_general'), Val(base_general)) ]_vars

\* the records of the REGISTRO sheet of resumen_global.xlsx for a period
RegistroGlobalDe(anio, mes) ==
    SelectSeq(Val(resumen_global).REGISTRO,
              LAMBDA r : Coincide(r.anio, anio) /\ Coincide(r.mes, mes))

\* C4: when a run of control_normal has written resumen_global.xlsx, the
\* records its REGISTRO sheet holds for the period of the run are the
\* records flagged by this run, each once.
C4_RegistroGlobalSoloUltimaCorrida ==
    (/\ pc = "retorno"
     /\ backend = "normal"
     /\ ~EsNone(anio_actual) /\ ~EsNone(mes_nombre)
     /\ ~EsNone(resumen_global)) =>
        MismoMulticonjunto(RegistroGlobalDe(anio_actual, mes_nombre), df_nuevo)

\* the certificate cannot be opened or has no CORTE sheet
NoAbre(wb) == ~wb.legible \/ SinHojaCorte(wb)

\* the folder of the run holds a certificate that cannot be opened or has
\* no CORTE sheet
HayActaQueNoAbre ==
    \E i \in 1..Len(Archivos) :
        endswith(lower(Archivos[i]), ".xlsx") /\ NoAbre(libros[Archivos[i]])

ArchivosXlsx == SelectSeq(Archivos, LAMBDA a : endswith(lower(a), ".xlsx"))

\* the failures that end a run with an exception: a write of a ledger or
\* summary file, or the save of a verified workbook
ErroresDeSalida == ErroresDeEscritura \cup {"error_guardar"}

\* C9: a certificate that cannot be opened or has no CORTE sheet does not
\* abort the run: the run ends with an exception only when a write of an
\* output file fails, every .xlsx file of the folder is passed to
\* revisar_acta, the other certificates leave their totals, and the ledger
\* and the summaries are written from the records of the run.
C9_ActaIlegibleNoAborta ==
    /\ pc = "excepcion" => rama \in ErroresDeSalida
    /\ (pc \in {"resumen_mes", "resumen_global", "retorno"} /\ HayActaQueNoAbre) =>
          /\ revisadas = ArchivosXlsx
          /\ \A a \in Rango(ArchivosXlsx) :
                 ~EsMalformada(libros[a]) => \E i \in 1..Len(base_cantidades) :
                                                 base_cantidades[i].archivo = a
          /\ ~EsNone(base_general)
          /\ \A r \in Rango(df_nuevo) : Veces(Val(base_general), r) >= Veces(df_nuevo, r)
    /\ (pc = "retorno" /\ HayActaQueNoAbre /\ df_nuevo # <<>>) =>
          /\ resumen_mes[nombre_carpeta_mes] = Algo(hojas_resumen_mes(df_nuevo, base_cantidades))
          /\ (backend = "normal") =>
                 /\ ~EsNone(resumen_global)
                 /\ Val(resumen_global).RESUMEN = resumen_por_periodo(df_combinado)

\* a run over julio2025, whose first certificate cannot be opened and whose
\* last has no CORTE sheet, returns with acta1.xlsx processed
C9_Testigo ==
    /\ pc = "retorno"
    /\ nombre_carpeta_mes = "julio2025"
    /\ HayActaQueNoAbre
    /\ revisadas = <<"danada.xlsx", "acta1.xlsx", "acta2.xlsx", "acta3.xlsx", "sin_corte.xlsx">>
    /\ Len(base_registro) >= 1
    /\ \E i \in 1..Len(Val(base_general)) : Val(base_general)[i].archivo = "acta1.xlsx"

\* a run is under way over a folder that holds no certificate
SinActas == pc # "reposo" /\ ArchivosXlsx = <<>>

\* the rows a ledger holds for a period
FilasDelPeriodo(df, anio, mes) ==
    SelectSeq(df, LAMBDA r : Coincide(r.anio, anio) /\ Coincide(r.mes, mes))

\* C11: a run over a folder without certificates raises nothing unless a
\* write of its output files fails, flags
\* nothing and collects no totals; it writes base_general.xlsx without any
\* row of the period, writes no monthly summary, and the contractor summary
\* of resumen_global.xlsx has no line for the period.
C11_CarpetaSinActas ==
    /\ [](SinActas =>
            /\ pc = "excepcion" => rama \in ErroresDeEscritura
            /\ base_registro = <<>>
            /\ base_cantidades = <<>>
            /\ (pc \in {"resumen_mes", "resumen_global", "retorno"}) =>
                  /\ ~EsNone(base_general)
                  /\ FilasDelPeriodo(Val(base_general), anio_actual, mes_nombre) = <<>>
            /\ (pc = "retorno" /\ ~EsNone(resumen_global)) =>
                  \A k \in DOMAIN Val(resumen_global).RESUMEN :
                      ~(Coincide(k[1], anio_actual) /\ Coincide(k[2], mes_nombre)))
    /\ [][ (SinActas /\ pc \in {"archivos", "resumen_mes"}) =>
             /\ resumen_mes' = resumen_mes
             /\ (pc = "archivos" /\ ~EsNone(base_general)) =>
                    MismoMulticonjunto(Val(base_general'),
                        SelectSeq(Val(base_general),
                                  LAMBDA r : EsDeOtroPeriodo(r, anio_actual, mes_nombre))) ]_vars

\* a run over the empty folder septiembre2025 returns after a run that had
\* left records of another period in the ledger
C11_Testigo ==
    /\ pc = "retorno"
    /\ nombre_carpeta_mes = "septiembre2025"
    /\ SinActas
    /\ corridas = 2
    /\ ~EsNone(base_general)
    /\ Len(Val(base_general)) >= 1
    /\ resumen_mes["septiembre2025"] = None

(***************************************************************************)
(* Properties of the normalisation functions (checked under SpecNorm)      *)
(***************************************************************************)
\* a second application of normalizar, in either backend, returns its argument
NormalizarIdempotente ==
    [][ funcion' \in {"normalizar(normalizar)", "normalizar_cr(normalizar_cr)"}
          => salida' = salida ]_vars

\* C12 as stated: normalizar is idempotent and a None input comes back as
\* None, in the normal and in the critical backend.
C12_IdempotenteYNuloPropagado ==
    /\ NormalizarIdempotente
    /\ []((funcion \in {"normalizar", "normalizar_cr"} /\ EsNone(entrada)) => EsNone(salida))

\* C12: normalizar is idempotent over texts of lower and upper case letters,
\* digits, accented letters, punctuation and whitespace; it returns a value
\* for every input, None for None in the normal backend and the empty string
\* for None in the critical backend.
C12_IdempotenteYNuloSinError ==
    /\ NormalizarIdempotente
    /\ [](funcion # "" =>
            /\ (EsNone(salida) <=> (EsNone(entrada) /\ funcion \in {"normalizar", "normalizar(normalizar)"}))
            /\ (EsNone(entrada) /\ funcion \in {"normalizar_cr", "normalizar_cr(normalizar_cr)"})
                   => salida = Algo(""))

\* normalizar was applied twice to a text with an upper case accented
\* letter, punctuation and whitespace
C12_Testigo ==
    /\ funcion = "normalizar(normalizar)"
    /\ entrada = Algo("Ñ.é")
    /\ salida = Algo("n e")

\* the label expected for each unit of EtiquetasUnidad
UnidadEsperada ==
    [u \in EtiquetasUnidad |->
        CASE u \in {"m³", "M3", "m3", "M^3", "m^3", " m3 ", "m 3"} -> "M3"
          [] u \in {"M²", "m²", "m^2", "M2"} -> "M2"
          [] u \in {"und", "UND", "Unid", "UNIDAD", "u", "U", "un d", "UN"} -> "UN"
          [] u \in {"ml", "ML", "m.l", "M.L", "M"} -> "M"
          [] u = "kg" -> "KG"
          [] u = "GL" -> "GL"]

\* a token that is already upper case, without whitespace or metre glyph,
\* and is not an alias of the unit table
EsUnidadCanonica(t) ==
    /\ upper(t) = t
    /\ ~Contiene(t, " ")
    /\ \A g \in {"M³", "M^3", "M²", "M^2"} : ~Contiene(t, g)
    /\ t \notin {"UND", "UNID", "UNIDAD", "U", "ML", "M.L"}

\* C13: normalizar_unidad returns a label for every input, None included;
\* the label has no whitespace and no lower case letter and is never an
\* alias (UND, UNID, UNIDAD, U, ML, M.L); the metre glyph variants give M3
\* and M2, the aliases give UN and M, and a canonical token comes back as it
\* is; normalizar_unidad("m³") = normalizar_unidad("M3") = "M3" and
\* normalizar_unidad("UND") = "UN".
C13_UnidadNormalizada ==
    funcion = "normalizar_unidad" =>
        /\ ~EsNone(salida)
        /\ EsNone(entrada) => Val(salida) = ""
        /\ ~Contiene(Val(salida), " ")
        /\ upper(Val(salida)) = Val(salida)
        /\ Val(salida) \notin {"UND", "UNID", "UNIDAD", "U", "ML", "M.L"}
        /\ (~EsNone(entrada) /\ Val(entrada) \in EtiquetasUnidad)
               => Val(salida) = UnidadEsperada[Val(entrada)]
        /\ (~EsNone(entrada) /\ EsUnidadCanonica(Val(entrada)))
               => Val(salida) = Val(entrada)
        /\ entrada \in {Algo("m³"), Algo("M3")} => salida = Algo("M3")
        /\ entrada = Algo("UND") => salida = Algo("UN")

\* the linear metre written with a dot and in lower case was normalised
C13_Testigo ==
    /\ funcion = "normalizar_unidad"
    /\ entrada = Algo("m.l")
    /\ salida = Algo("M")

\* C14: a write of base_general.xlsx, of the monthly summary or of
\* resumen_global.xlsx that fails ends the call with the exception: the file
\* is left as it was, no later step of the call runs and correr_todo never
\* returns its result.
C14_ErrorDeEscrituraSePropaga ==
    /\ [](rama \in ErroresDeEscritura => pc = "excepcion")
    /\ [][ pc = "excepcion" => (pc' = "excepcion" /\ UNCHANGED vars) ]_vars
    /\ [][ rama' \in ErroresDeEscritura =>
             /\ rama \notin ErroresDeEscritura
             /\ UNCHANGED <<base_general, resumen_mes, resumen_global>> ]_vars

\* the write of resumen_global.xlsx failed after base_general.xlsx and the
\* monthly summary had been written
C14_Testigo ==
    /\ pc = "excepcion"
    /\ rama = "error_resumen_global"
    /\ ~EsNone(base_general)
    /\ ~EsNone(resumen_mes[nombre_carpeta_mes])

\* C15: no step of revisar_acta or correr_todo changes valores_referencia,
\* CRIT_MAP or CRITICOS_NORM: in every state they hold the entries they held
\* before the first run.
C15_ReferenciasSinCambio ==
    /\ valores_referencia = ValoresReferencia
    /\ CRIT_MAP = construir_CRIT_MAP(ACTIVIDADES_CRITICAS, <<>>)
    /\ CRITICOS_NORM = construir_CRITICOS_NORM(ACTIVIDADES_CRITICAS_cr, <<>>)

\* in the second run a row was looked up whose key is not in the reference
\* prices, and a certificate was looked up in the keyword table before
C15_Testigo ==
    /\ corridas = 2
    /\ pc = "filas"
    /\ backend = "normal"
    /\ ~modo_critico
    /\ rama = "sin_valor_referencia"
    /\ ~EsNone(base_general)
    /\ ~DictTiene(valores_referencia, clave_de_referencia(HojaActual, fila - 1))

(***************************************************************************)
(* Properties of the price table (checked under SpecPrecios)               *)
(***************************************************************************)
\* C16: after any sequence of upsert_precios, actualizar_precio and
\* eliminar_actividad calls, table precios has at most one row per activity
\* key; a key is stored exactly when an upsert carried out has named it and
\* no later call deleted it, with the price and unit of the last such upsert
\* (of the last row naming it, when a batch names it several times).
C16_UnaFilaPorActividad ==
    /\ \A i, j \in 1..Len(precios) :
           precios[i].actividad = precios[j].actividad => i = j
    /\ \A i \in 1..Len(precios) : precios[i].actividad \in ClavesActividad
    /\ \A k \in ClavesActividad :
           IF EsNone(ultimo_upsert[k]) THEN EsNone(fila_de(precios, k))
           ELSE /\ ~EsNone(fila_de(precios, k))
                /\ Val(fila_de(precios, k)).precio = Val(ultimo_upsert[k]).precio
                /\ Val(fila_de(precios, k)).unidad = Val(ultimo_upsert[k]).unidad

\* a batch that names the key a twice, with different prices and units, was
\* upserted over a stored row of a, and b was deleted after it was stored
C16_Testigo ==
    /\ llamadas = 3
    /\ en_vuelo = <<>>
    /\ funcion = "upsert_precios"
    /\ Len(entrada) = 2
    /\ entrada[1].actividad = "a" /\ entrada[2].actividad = " a "
    /\ entrada[1].precio = CeldaNum(1) /\ entrada[2].precio = CeldaNum(2)
    /\ entrada[1].unidad = None /\ entrada[2].unidad = Algo(" M3")
    /\ Len(precios) = 1
    /\ precios[1].actividad = "a"
    /\ precios[1].precio = Num(2)
    /\ precios[1].unidad = Algo("M3")
    /\ \E i \in 1..Len(precios_log) :
           precios_log[i].actividad = "b" /\ EsNone(precios_log[i].precio_new)
    /\ \E i \in 1..Len(precios_log) :
           precios_log[i].actividad = "a" /\ precios_log[i].precio_old = Algo(Num(1))

(***************************************************************************)
(* Properties of the loop over rows (checked under SpecActa)               *)
(***************************************************************************)
\* the description of the row names labor or carries the PEA marker, in any
\* case of letters, or (control_normal) the item code carries MR45
EsLineaDeManoDeObra(f) ==
    \/ Contiene(upper(py_str(FilaDesc(f))), "MANO DE OBRA")
    \/ Contiene(upper(py_str(FilaDesc(f))), "PEA")
    \/ backend = "normal" /\ Contiene(upper(FilaItem(f)), "MR45")

\* C17: a labor line (description with MANO DE OBRA or PEA; in
\* control_normal also an item code with MR45) is left by the filter, before
\* any reference is looked up: it appends no record and changes no total,
\* whatever its price, quantity or the mode; no stored record is a labor line.
C17_ManoDeObraSinRegistro ==
    /\ [][ (LeyendoFila /\ EsLineaDeManoDeObra(fila)) =>
             /\ base_registro' = base_registro
             /\ totales_cant' = totales_cant
             /\ rama' \in {"filtro", "sin_item_o_desc"} ]_vars
    /\ [](\A i \in 1..Len(base_registro) :
             /\ ~Contiene(upper(base_registro[i].descripcion), "MANO DE OBRA")
             /\ ~Contiene(upper(base_registro[i].descripcion), "PEA")
             /\ backend = "normal" => ~Contiene(upper(base_registro[i].item), "MR45"))

\* the filter has left a row with an item code whose description carries
\* the PEA marker and a critical keyword and whose price is 500 above the
\* reference
C17_Testigo ==
    /\ pc = "filas"
    /\ fila = 11
    /\ rama = "filtro"
    /\ FilaItem(10) = "1.1"
    /\ FilaDesc(10) = CeldaStr("Peaje excavación mecánica")
    /\ FilaValor(10) = CeldaNum(1500)
    /\ modo_critico
    /\ base_registro = <<>>

\* the outcome a branch of the loop stands for
DesenlaceDeRama(r) ==
    CASE r \in {"sin_item_o_desc", "filtro", "desc_vacia", "valor_unitario_none",
                "valor_unitario_no_num", "cantidad_cero"} -> "EXCLUDED"
      [] r \in {"no_critica", "sin_unidad", "sin_valor_referencia"} -> "NO_REFERENCE"
      [] r = "dentro_tolerancia" -> "WITHIN_TOLERANCE"
      [] r = "registrado" -> "FLAGGED"
      [] OTHER -> "NONE"

\* the row is a parsed line item with a reference whose declared price is
\* more than one unit away from it
FilaFueraDeTolerancia(f) ==
    /\ PasoElAnalisis(f)
    /\ ~EsNone(ReferenciaResuelta(f))
    /\ ~Val(PrecioDeclarado(f)).nan
    /\ Abs(Val(PrecioDeclarado(f)).n - Val(ReferenciaResuelta(f)).n) > 1

\* C18: the loop takes the data rows one by one, each once; every row ends
\* in exactly one of EXCLUDED, NO_REFERENCE, WITHIN_TOLERANCE and FLAGGED; a
\* record is appended only for a row that ends in FLAGGED, and then exactly
\* one; a certificate never has more records than data rows read.
C18_UnDesenlacePorFila ==
    /\ [][ LeyendoFila =>
             /\ fila' = fila + 1
             /\ pc' = "filas"
             /\ DesenlaceDeRama(rama') \in
                    {"EXCLUDED", "NO_REFERENCE", "WITHIN_TOLERANCE", "FLAGGED"}
             /\ (DesenlaceDeRama(rama') = "FLAGGED") <=> FilaFueraDeTolerancia(fila)
             /\ IF DesenlaceDeRama(rama') = "FLAGGED"
                THEN UnRegistroMas /\ UltimoRegistro.archivo = Archivos[idx]
                ELSE base_registro' = base_registro ]_vars
    /\ [][ (pc' = "filas" /\ pc # "filas") => fila' = 10 ]_vars
    /\ [][ (pc = "filas" /\ pc' # "filas") => fila > max_row(HojaActual) ]_vars
    /\ [](pc = "filas" =>
             /\ fila \in 10..(max_row(HojaActual) + 1)
             /\ Len(RegistrosDe(Archivos[idx])) <= fila - 10)

\* the second certificate of the folder has two data rows, both read: the
\* first was flagged and the second was not; it has one record
C18_Testigo ==
    /\ pc = "filas"
    /\ idx = 2
    /\ max_row(HojaActual) = 11
    /\ fila = 12
    /\ DesenlaceDeRama(rama) # "FLAGGED"
    /\ FilaFueraDeTolerancia(10)
    /\ Len(RegistrosDe(Archivos[idx])) = 1
    /\ Len(base_registro) = 2

\* C19: a row whose quantity cell is empty, not a number, zero or NaN
\* appends no record and changes no category total; every stored record has
\* a quantity that is a number other than zero.
C19_CantidadInvalidaSinEfecto ==
    /\ [][ (LeyendoFila /\ ~CantidadValida(fila)) =>
             /\ base_registro' = base_registro
             /\ totales_cant' = totales_cant ]_vars
    /\ [](\A i \in 1..Len(base_registro) :
             /\ ~base_registro[i].cantidad_presenta.nan
             /\ base_registro[i].cantidad_presenta.n # 0)

\* a row of excavation, priced 500 above its reference and with quantity 0,
\* was read after the totals were still at zero, and left no record
C19_Testigo ==
    /\ pc = "filas"
    /\ fila = 11
    /\ idx = 1
    /\ FilaCantidad(10) = CeldaNum(0)
    /\ FilaValor(10) = CeldaNum(1500)
    /\ FilaDesc(10) = CeldaStr("Excavación mecánica")
    /\ rama = "cantidad_cero"
    /\ base_registro = <<>>
    /\ totales_cant = TotalesCero

\* C20: a line item whose price cell is empty or not numeric is dropped as a
\* whole, in control_normal and in control_critico alike: it appends no
\* record and changes no category total, and the loop goes on with the next
\* row.
C20_PrecioInvalidoDescartaLaFila ==
    [][ (LeyendoFila /\ EsPartida(fila) /\ EsNone(PrecioDeclarado(fila))) =>
          /\ base_registro' = base_registro
          /\ totales_cant' = totales_cant
          /\ fila' = fila + 1
          /\ pc' = "filas" ]_vars

\* C21: the category totals agree with the classifier: a line item with a
\* valid non-zero quantity adds its quantity to the accumulator of the
\* category _clasificar_familia gives to its normalized description and to
\* no other, and to none when the classifier gives None.  (In control_normal
\* a line item is a row whose declared price was parsed.)
C21_TotalesSegunClasificador ==
    [][ (/\ LeyendoFila
         /\ EsPartida(fila)
         /\ (backend = "normal" => ~EsNone(PrecioDeclarado(fila)))
         /\ CantidadValida(fila)) =>
          \A f \in Familias :
              totales_cant'[f] =
                  IF CategoriaDeFila(fila) = Algo(f)
                  THEN Num(totales_cant[f].n + Val(CantidadDeclarada(fila)).n)
                  ELSE totales_cant[f] ]_vars

(***************************************************************************)
(* Properties of the monthly summary (checked under Spec)                  *)
(***************************************************************************)
\* the contractors of the records flagged so far by the run
ContratistasConRegistro == {base_registro[i].contratista : i \in 1..Len(base_registro)}

\* the positions of the flagged records of a contractor
RegistrosDelContratista(c) == {i \in 1..Len(base_registro) : base_registro[i].contratista = c}

\* the adjusted values of the first n flagged records of a contractor, added up
RECURSIVE AjustadoHasta(_, _)
AjustadoHasta(c, n) ==
    IF n = 0 THEN 0
    ELSE AjustadoHasta(c, n - 1)
         + (IF base_registro[n].contratista = c THEN base_registro[n].valor_ajustado.n ELSE 0)

\* the item counts of the lines of a contractor summary, added up
RECURSIVE ItemsEnTotal(_, _)
ItemsEnTotal(resumen, contratistas) ==
    IF contratistas = {} THEN 0
    ELSE LET c == CHOOSE x \in contratistas : TRUE
         IN resumen[c].Items_con_error + ItemsEnTotal(resumen, contratistas \ {c})

\* the run has just written its monthly summary
ResumenMesRecienEscrito == rama = "resumen_mes" /\ base_registro # <<>>

\* C22: the contractor summary written by a run has one line per contractor
\* with a record flagged in the run, whose Items_con_error is the number of
\* that contractor's flagged records and whose Suma_valor_ajustado is the
\* sum of their adjusted values; the counts add up to the number of records
\* flagged in the run.
C22_ResumenPorContratista ==
    ResumenMesRecienEscrito =>
        /\ ~EsNone(resumen_mes[nombre_carpeta_mes])
        /\ LET resumen == Val(resumen_mes[nombre_carpeta_mes]).RESUMEN
           IN /\ DOMAIN resumen = ContratistasConRegistro
              /\ \A c \in ContratistasConRegistro :
                    /\ resumen[c].Items_con_error = Cardinality(RegistrosDelContratista(c))
                    /\ resumen[c].Items_con_error >= 1
                    /\ resumen[c].Suma_valor_ajustado = Num(AjustadoHasta(c, Len(base_registro)))
              /\ ItemsEnTotal(resumen, DOMAIN resumen) = Len(base_registro)

\* the exact-mode run over julio2025 wrote a summary with two records of
\* ACME, adjusted to 13000 in all, and one of BETA
C22_Testigo ==
    /\ ResumenMesRecienEscrito
    /\ nombre_carpeta_mes = "julio2025"
    /\ ~modo_critico
    /\ Len(base_registro) = 3
    /\ LET resumen == Val(resumen_mes["julio2025"]).RESUMEN
       IN /\ DOMAIN resumen = {CeldaStr("ACME"), CeldaStr("BETA")}
          /\ resumen[CeldaStr("ACME")] =
                 [Items_con_error |-> 2, Suma_valor_ajustado |-> Num(13000)]
          /\ resumen[CeldaStr("BETA")].Items_con_error = 1

\* the entries of base_cantidades that name a certificate
EntradasDe(archivo) == {i \in 1..Len(base_cantidades) : base_cantidades[i].archivo = archivo}

\* the certificates handed to revisar_acta whose call has ended
ActasTerminadas ==
    IF pc = "filas" THEN Rango(SubSeq(revisadas, 1, Len(revisadas) - 1)) ELSE Rango(revisadas)

\* the totals of a category over the first n entries of a contractor
RECURSIVE CantidadHasta(_, _, _)
CantidadHasta(c, f, n) ==
    IF n = 0 THEN 0
    ELSE CantidadHasta(c, f, n - 1)
         + (IF base_cantidades[n].contratista = c THEN base_cantidades[n][f].n ELSE 0)

\* C23: every certificate processed to its end leaves exactly one entry in
\* base_cantidades, made of its totals, and a skipped one leaves none; in
\* the monthly summary written by the run, each contractor's line of the
\* category summary is, category by category, the sum of the totals of the
\* contractor's certificates processed in the run.
C23_CantidadesPorActaYSuma ==
    /\ [](pc # "reposo" =>
            \A a \in ActasTerminadas :
                Cardinality(EntradasDe(a)) = IF EsMalformada(libros[a]) THEN 0 ELSE 1)
    /\ [][ (pc = "filas" /\ pc' = "archivos") =>
             /\ Len(base_cantidades') = Len(base_cantidades) + 1
             /\ \A f \in Familias :
                    base_cantidades'[Len(base_cantidades')][f] = totales_cant[f] ]_vars
    /\ [](ResumenMesRecienEscrito =>
            LET cantidades == Val(resumen_mes[nombre_carpeta_mes]).CANTIDADES
            IN /\ ~EsNone(cantidades)
               /\ DOMAIN Val(cantidades) =
                      {base_cantidades[i].contratista : i \in 1..Len(base_cantidades)}
               /\ \A c \in DOMAIN Val(cantidades) : \A f \in Familias :
                      Val(cantidades)[c][f] = Num(CantidadHasta(c, f, Len(base_cantidades))))

\* the exact-mode run over julio2025 wrote 13 units of excavation for ACME,
\* 10 from acta1.xlsx and 3 from acta3.xlsx; its two unusable files left no
\* entry
C23_Testigo ==
    /\ ResumenMesRecienEscrito
    /\ nombre_carpeta_mes = "julio2025"
    /\ ~modo_critico
    /\ Len(base_cantidades) = 3
    /\ EntradasDe("danada.xlsx") = {} /\ EntradasDe("sin_corte.xlsx") = {}
    /\ base_cantidades[1].archivo = "acta1.xlsx" /\ base_cantidades[1]["Excavaciones"] = Num(10)
    /\ base_cantidades[3].archivo = "acta3.xlsx" /\ base_cantidades[3]["Excavaciones"] = Num(3)
    /\ Val(Val(resumen_mes["julio2025"]).CANTIDADES)[CeldaStr("ACME")]["Excavaciones"] = Num(13)

(***************************************************************************)
(* Properties of correr_todos_los_meses (checked under SpecLote)           *)
(***************************************************************************)
\* the folders of a list of month entries, in order
CarpetasDe(lista) == [i \in 1..Len(lista) |-> lista[i].carpeta]

\* year and month number of a folder name, 0 for the one that is missing
AnioYMes(nombre) ==
    LET am == parsear_anio_mes_desde_carpeta(nombre)
    IN << IF EsNone(am[1]) THEN 0 ELSE Val(am[1]),
          IF EsNone(am[2]) THEN 0 ELSE DictGetDef(MAPA_MESES, Val(am[2]), 0) >>

\* C24: correr_todos_los_meses works on the folders of actas/, each once,
\* in non-decreasing (year, month number) order; it starts a correr_todo
\* only from its loop, for the next folder of that order and with empty
\* base_registro and base_cantidades, so one run is under way at a time;
\* when it returns, it has run correr_todo once per folder and its result
\* list holds one result per folder in the same order.
C24_UnaCorridaPorCarpetaEnOrden ==
    /\ [](meses # None =>
            LET lista == CarpetasDe(Val(meses))
            IN /\ \A c \in DOMAIN carpetas : Veces(lista, c) = Veces(listado, c)
               /\ Rango(lista) \subseteq DOMAIN carpetas
               /\ \A i, j \in 1..Len(lista) :
                      i < j => ClaveMenorOIgual(AnioYMes(lista[i]), AnioYMes(lista[j]))
               /\ Len(resultados) <= Len(lista)
               /\ \A i \in 1..Len(resultados) : resultados[i].carpeta_mes = lista[i]
               /\ corridas = Len(resultados) + (IF pc \in {"lote", "lote_retorno"} THEN 0 ELSE 1)
               /\ pc = "lote_retorno" => Len(resultados) = Len(lista))
    /\ [][ corridas' # corridas =>
             /\ pc = "lote"
             /\ corridas' = corridas + 1
             /\ nombre_carpeta_mes' = CarpetasDe(Val(meses))[Len(resultados) + 1]
             /\ base_registro' = <<>>
             /\ base_cantidades' = <<>> ]_vars

\* the batch returned four results, in an order that is not the one of the
\* directory listing
C24_Testigo ==
    /\ pc = "lote_retorno"
    /\ listado = <<"leeme.txt", "jul2025", "julio2025", "agosto2024", "julio">>
    /\ CarpetasDe(Val(meses)) = <<"julio", "agosto2024", "jul2025", "julio2025">>
    /\ [i \in 1..4 |-> resultados[i].carpeta_mes] = <<"julio", "agosto2024", "jul2025", "julio2025">>
    /\ corridas = 4

(***************************************************************************)
(* Properties of the opening of a certificate (checked under SpecActa)     *)
(***************************************************************************)
\* the name equals CORTE case-insensitively, with or without one trailing
\* space
EsNombreCorte(n) == upper(n) \in {"CORTE", "CORTE "}

\* C25: revisar_acta finds the data sheet of every readable workbook that
\* has a sheet named CORTE case-insensitively, with or without one
\* trailing space, and skips the certificate for want of the sheet only
\* when it has no such sheet.
C25_HojaCorteSinDistinguirMayusculas ==
    [][ (/\ pc = "archivos"
         /\ idx <= Len(Archivos)
         /\ endswith(lower(Archivos[idx]), ".xlsx")
         /\ libros[Archivos[idx]].legible
         /\ idx' = idx + 1 \/ pc' = "filas") =>
          (rama' = "sin_hoja_corte" <=>
              ~\E n \in sheetnames(libros[Archivos[idx]]) : EsNombreCorte(n)) ]_vars

(***************************************************************************)
(* Properties of the loaded reference prices (checked under SpecCarga)     *)
(***************************************************************************)
\* the price database holds an entry for the activity and the unit of
\* sheet row f: same normalized description, same normalized unit
EntradaEnLaBase(f) ==
    /\ UnidadNormalizada(f) # ""
    /\ \E i \in 1..Len(precios) :
          /\ normalizar(precios[i].actividad) = DescNormalizada(f)
          /\ normalizar_unidad(precios[i].unidad) = UnidadNormalizada(f)

\* C26: the dict an exact-mode run gets from the loader of get_backend is
\* keyed by pairs (normalized description, normalized unit), and the
\* lookup of revisar_acta finds the entry of the price database for a line
\* item with the same normalized description and unit.
C26_ReferenciasPorDescripcionYUnidad ==
    /\ [](funcion # "" =>
            \A i \in 1..Len(valores_referencia) : Len(valores_referencia[i][1]) = 2)
    /\ [][ (/\ funcion # ""
            /\ backend = "normal" /\ ~modo_critico
            /\ LeyendoFila /\ PasoElAnalisis(fila) /\ EntradaEnLaBase(fila)) =>
             rama' \in {"registrado", "dentro_tolerancia"} ]_vars

(***************************************************************************)
(* Properties of the files a run leaves (checked under Spec)               *)
(***************************************************************************)
\* the monthly summary file stands for the run that is returning: its
\* register and contractor summary are those of df_nuevo and its quantity
\* totals those of base_cantidades; no file stands for a run that has
\* neither flagged records nor quantities
ReflejaLaCorrida(archivo) ==
    IF EsNone(archivo)
    THEN df_nuevo = <<>> /\ base_cantidades = <<>>
    ELSE /\ Val(archivo).REGISTRO = df_nuevo
         /\ Val(archivo).RESUMEN = resumen_por_contratista(df_nuevo)
         /\ Val(archivo).CANTIDADES =
                IF base_cantidades # <<>> THEN Algo(resumen_cantidades(base_cantidades))
                ELSE None

\* C27: when correr_todo has completed its writes for a folder, the file
\* resumen_<folder>.xlsx holds the contractor summary and the register of
\* the records flagged in this run (empty when none was flagged, never
\* those of an earlier run) and the quantity totals of every certificate
\* processed in this run.
C27_ResumenMesDeLaCorridaActual ==
    pc = "retorno" => ReflejaLaCorrida(resumen_mes[nombre_carpeta_mes])

\* the (year, month) key of a ledger row and the rows a ledger file holds
\* under a key; a file that does not exist holds none
ClaveDe(r) == <<r.anio, r.mes>>

FilasDeClave(archivo, k) ==
    IF EsNone(archivo) THEN <<>> ELSE SelectSeq(Val(archivo), LAMBDA r : ClaveDe(r) = k)

ClavesDe(archivo) ==
    IF EsNone(archivo) THEN {} ELSE {ClaveDe(Val(archivo)[i]) : i \in 1..Len(Val(archivo))}

\* C28: no step of a run of correr_todo for the period (anio_actual,
\* mes_nombre) changes the multiset of rows that base_general.xlsx holds
\* under any other (year, month) key.
C28_OtrosPeriodosIntactos ==
    [][ pc # "reposo" =>
          \A k \in ClavesDe(base_general) \cup ClavesDe(base_general') :
              k # <<anio_actual, mes_nombre>> =>
                  MismoMulticonjunto(FilasDeClave(base_general, k),
                                     FilasDeClave(base_general', k)) ]_vars

\* the second run has just rewritten a ledger that holds rows of its own
\* period next to rows that an earlier run left under another key
C28_Testigo ==
    /\ pc = "resumen_mes"
    /\ rama = "base_general"
    /\ corridas = 2
    /\ df_nuevo # <<>>
    /\ \E k \in ClavesDe(base_general) : k # <<anio_actual, mes_nombre>>
    /\ <<anio_actual, mes_nombre>> \in ClavesDe(base_general)

\* C29: every row of base_general.xlsx carries a year and the name of a
\* month of MAPA_MESES, whatever folder name the runs were given.
C29_RegistrosConAnioYMes ==
    ~EsNone(base_general) =>
        \A i \in 1..Len(Val(base_general)) :
            /\ ~EsNone(Val(base_general)[i].anio)
            /\ ~EsNone(Val(base_general)[i].mes)
            /\ DictTiene(MAPA_MESES, Val(Val(base_general)[i].mes))

(***************************************************************************)
(* Properties of the two quantity outputs of a certificate (checked under  *)
(* SpecActa)                                                               *)
(***************************************************************************)
\* the value of the formula =SUM(col2:coln) over the quantities of a column
RECURSIVE SumaColumna(_)
SumaColumna(cantidades) ==
    IF cantidades = <<>> THEN Num(0)
    ELSE FAdd(Head(cantidades), SumaColumna(Tail(cantidades)))

\* the column of CUADRO_CANTIDADES that lists each category of base_cantidades
ColumnaDeFamilia ==
    ("Excavaciones" :> "B") @@ ("Rellenos" :> "C")
    @@ ("Concreto MR" :> "D") @@ ("Concreto estampado" :> "E")

\* C30: when revisar_acta finishes a certificate, the quantities listed
\* in each category column of the appended CUADRO_CANTIDADES sheet add up
\* to the total of that category in the entry appended to base_cantidades.
C30_CuadroIgualATotales ==
    [][ (pc = "filas" /\ rama' = "guardada") =>
          \A f \in Familias :
              SumaColumna(Val(cuadro')[ColumnaDeFamilia[f]].cantidades)
                  = base_cantidades'[Len(base_cantidades')][f] ]_vars
====
